---- MODULE Spec2Model ----
(***************************************************************************)
(* Model of the push-to-talk session orchestrator of the capture app       *)
(* (apps/capture/src-tauri/src/pipeline/orchestrator.rs) together with the *)
(* VAD state machine and the speech buffer it drives.                      *)
(*                                                                         *)
(* Three threads of control are modelled:                                  *)
(*   - the toggle handler (Pipeline::toggle_recording / start_recording),  *)
(*     serialized by the tokio Mutex around Pipeline (lib.rs:64);          *)
(*   - the session task spawned by start_recording                         *)
(*     (run_recording_pipeline and the release of is_running);             *)
(*   - the blocking capture worker (run_audio_capture).                    *)
(* Audio is abstracted to (is_speech, number of 16 kHz samples) per chunk; *)
(* buffers are modelled by their lengths.  The app handle is assumed set,  *)
(* so every emit appends to the event stream.                              *)
(*                                                                         *)
(* Other components are driven on their own, by arbitrary sequences of     *)
(* calls: the VadStateMachine (VadSpec), the SpeechBuffer (BufSpec), the   *)
(* shared-memory buffer of the daemon's ZeroCopyAudioRecorder (ShmSpec),   *)
(* the ring-buffer AudioRecorder of v2m_engine (RecSpec), the IPC client   *)
(* of the Tauri bridge (IpcSpec), the ClipboardManager (ClipSpec) and the  *)
(* chunk loop of run_audio_capture (CapSpec).                              *)
(***************************************************************************)
EXTENDS Integers, Sequences, FiniteSets, TLC

\* ---------------------------------------------------------------- bounds
MaxToggles == 3
MaxChunks == 3
TickMs == 100
ChunkSamples == {1600, 3200}
MaxVadCalls == 6
VadChunkMs == {50, 100, 400, 800}
MaxBufCalls == 5
BufPadMs == {0, 100, 300, 2000}
BufMaxS == {1, 30}
BufSamples == {1600, 16000, 480000}
MaxShmCalls == 6
ShmCapacities == {2, 5}
ShmChunk == {1, 2, 4}
MaxRecCalls == 5
DeviceRates == {8000, 16000}
RequestedRates == {16000, 48000}
ChannelCounts == {1, 2}
MaxConfigs == 2
RecChunk == {1, 2, 3}
MaxIpcCalls == 2
MaxClipCalls == 5
ClipTexts == {"a", "b"}
MaxCapChunks == 6
CapSamples == {3200, 12800}
IpcThreads == {1, 2}
PayloadSizes == {100, 10485760, 10485761}
Responses ==
    { [len |-> 100, status |-> "success"],
      [len |-> 1048576, status |-> "success"],
      [len |-> 1048577, status |-> "success"],
      [len |-> 100, status |-> "error"],
      [len |-> 100, status |-> "invalid"] }
\* the environment of socket_path(): which variables are set, and who
\* owns the runtime directory
Environments ==
    { [V2M_SOCKET_PATH |-> FALSE, XDG_RUNTIME_DIR |-> TRUE, dir |-> "self"],
      [V2M_SOCKET_PATH |-> FALSE, XDG_RUNTIME_DIR |-> TRUE, dir |-> "other"],
      [V2M_SOCKET_PATH |-> FALSE, XDG_RUNTIME_DIR |-> FALSE, dir |-> "absent"],
      [V2M_SOCKET_PATH |-> TRUE, XDG_RUNTIME_DIR |-> TRUE, dir |-> "other"] }

\* ------------------------------------------------------ program constants
DEBOUNCE_MS == 300
SAMPLE_RATE == 16000
min_speech_duration_ms == 150
min_silence_duration_ms == 800
default_speech_pad_ms == 300
default_max_recording_duration_s == 30
RING_SECONDS == 600
MAX_REQUEST_SIZE == 10485760
MAX_RESPONSE_SIZE == 1048576

VARIABLES
    \* Pipeline fields
    state,                \* RecordingState
    cancel_flag,          \* AtomicBool
    is_running,           \* AtomicBool
    last_toggle_elapsed,  \* last_toggle_time.elapsed(), saturated at DEBOUNCE_MS
    transcriber,          \* Option<WhisperTranscriber>: "None" | "Some"
    \* toggle handler (one at a time, under the Pipeline mutex)
    h_pc, was_running, current_state, toggle_ret, toggles,
    \* session task (tokio::spawn in start_recording)
    task_pc, result, text, errors_pending,
    \* capture worker (spawn_blocking(run_audio_capture))
    w_pc, capture_result, audio_len, recording_timed_out,
    vad_state, current_time_ms, pre_speech, speech,
    speech_ever_detected, currently_speaking, chunks,
    \* outputs
    events, clipboard,
    \* configuration read when a SpeechBuffer is built
    speech_pad_ms,             \* VadConfig.speech_pad_ms
    max_recording_duration_s,  \* PipelineConfig.max_recording_duration_s
    \* a VadStateMachine driven on its own: what its calls returned
    vad_log,              \* the events other than None, in order
    vad_interrupted,      \* reset() or force_end() was called while capturing
    speech_run_ms,        \* length of the run of speech inputs begun in Idle
    \* SharedAudioBuffer and ZeroCopyAudioRecorder (v2m_engine)
    write_pos,            \* AtomicUsize
    capacity,             \* capacity in samples
    is_finalized,         \* AtomicBool
    is_recording,         \* ZeroCopyAudioRecorder.is_recording
    stream,               \* Option<cpal::Stream>: "None" | "Some"
    callback,             \* the cpal input callback inside write_samples
    mem,                  \* the mapped region, one cell per sample
    copied_log,           \* the samples copied into it since the last reset
    next_sample,          \* samples are told apart by a running number
    reader,               \* read_as_numpy between its load and its copy
    \* AudioRecorder (ring buffer); it shares stream and is_recording
    requested_sample_rate, channels, device_sample_rate,
    consumer,             \* Option<RingConsumer>: "None" or "Some"
    rb, rb_capacity,      \* the ring: its samples in order, its size
    producer,             \* the input callback inside push_slice
    pop_loop,             \* a `while let Some(s) = try_pop()` in progress
    pushed, accepted,     \* samples offered to / taken by push_slice
    popped,               \* the samples the consumer obtained, in pop order
    \* IPC client of the Tauri bridge
    lock_owner,           \* the thread holding the CONNECTION mutex, or 0
    guard,                \* the cached stream: 0 for None, else its socket
    PATH,                 \* the OnceLock of socket_path()
    env,                  \* which environment variables are set
    dir_owner,            \* the runtime directory: absent, own, or foreign
    ipc,                  \* each thread's position in send_json_request
    socks,                \* every connection opened so far
    next_req,             \* requests are told apart by a running number
    \* ClipboardManager and the system clipboard
    CLIPBOARD,            \* the OnceLock: "unset", "Ok" or "Err"
    handle_alive,         \* the arboard handle exists
    managers,             \* the ClipboardManager values alive
    next_manager,
    selection,            \* the system clipboard: its owner and its text
    written,              \* the latest successful set_text, while it stands
    \* a SpeechBuffer driven on its own, its samples told apart
    buffer,               \* the SpeechBuffer: its ring, its Vec, its sizes
    buffer_log,           \* what the calls on it were given
    \* wait_for_data of the two recorders
    recorder,             \* which recorder is driven
    notify,               \* the tokio Notify: a permit is stored
    waiter,               \* the future wait_for_data returned
    \* detect_segments of the Python-facing VoiceActivityDetector
    seg,                  \* the call: its arguments, its locals, its result
    \* the latest call made on a component driven on its own, and how many
    last_call, calls

pipelineVars == <<state, cancel_flag, is_running, last_toggle_elapsed, transcriber>>
handlerVars == <<h_pc, was_running, current_state, toggle_ret, toggles>>
taskVars == <<task_pc, result, text, errors_pending>>
captureLocals == <<vad_state, current_time_ms, pre_speech, speech,
                   speech_ever_detected, currently_speaking, chunks>>
workerVars == <<w_pc, capture_result, audio_len, recording_timed_out, captureLocals>>
outVars == <<events, clipboard>>
configVars == <<speech_pad_ms, max_recording_duration_s>>
vadUnitVars == <<vad_log, vad_interrupted, speech_run_ms>>
shmVars ==
    <<write_pos, capacity, is_finalized, is_recording, stream, callback,
      mem, copied_log, next_sample, reader>>
callVars == <<last_call, calls>>
recVars ==
    <<requested_sample_rate, channels, device_sample_rate, consumer,
      rb, rb_capacity, producer, pop_loop, pushed, accepted, popped>>
ipcVars == <<lock_owner, guard, PATH, env, dir_owner, ipc, socks, next_req>>
clipVars ==
    <<CLIPBOARD, handle_alive, managers, next_manager, selection, written>>
sbVars == <<buffer, buffer_log>>
waitVars == <<recorder, notify, waiter>>
segVars == <<seg>>
auxVars == <<sbVars, waitVars, segVars>>
extVars == <<recVars, ipcVars, clipVars, auxVars>>
unitVars == <<configVars, vadUnitVars, shmVars, extVars, callVars>>
vars == <<pipelineVars, handlerVars, taskVars, workerVars, outVars, unitVars>>

Min(a, b) == IF a < b THEN a ELSE b

RecordingStates == {"Idle", "Recording", "Processing"}

\* PipelineEvent, by tag
StateChanged(s) == "StateChanged_" \o s
EvSpeechStarted == "SpeechStarted"
EvSpeechEnded == "SpeechEnded"
EvTranscriptionComplete == "TranscriptionComplete"
EvCopiedToClipboard == "CopiedToClipboard"
EvError == "Error"

emit(ev) == events' = Append(events, ev)

\* ------------------------------------------------------------ VAD machine
VadIdle == [tag |-> "Idle", started_at_ms |-> 0]
VadSpeechPending(t) == [tag |-> "SpeechPending", started_at_ms |-> t]
VadSpeechActive == [tag |-> "SpeechActive", started_at_ms |-> 0]
VadSilencePending(t) == [tag |-> "SilencePending", started_at_ms |-> t]

\* confirmations that need strictly more than the configured time
process_strict(vs, clock, is_speech, chunk_duration_ms) ==
    LET now == clock + chunk_duration_ms
        out(s, e) == [state |-> s, clock |-> now, event |-> e]
    IN  CASE vs.tag = "Idle" ->
                IF is_speech THEN out(VadSpeechPending(now), "None")
                             ELSE out(VadIdle, "None")
          [] vs.tag = "SpeechPending" ->
                IF is_speech
                THEN IF now - vs.started_at_ms > min_speech_duration_ms
                     THEN out(VadSpeechActive, "SpeechStarted")
                     ELSE out(vs, "None")
                ELSE out(VadIdle, "None")
          [] vs.tag = "SpeechActive" ->
                IF is_speech THEN out(VadSpeechActive, "None")
                             ELSE out(VadSilencePending(now), "None")
          [] vs.tag = "SilencePending" ->
                IF is_speech
                THEN out(VadSpeechActive, "None")
                ELSE IF now - vs.started_at_ms > min_silence_duration_ms
                     THEN out(VadIdle, "SpeechEnded")
                     ELSE out(vs, "None")

\* a machine without the SpeechPending debounce
process_no_debounce(vs, clock, is_speech, chunk_duration_ms) ==
    LET now == clock + chunk_duration_ms
        out(s, e) == [state |-> s, clock |-> now, event |-> e]
    IN  CASE vs.tag \in {"Idle", "SpeechPending"} ->
                IF is_speech THEN out(VadSpeechActive, "SpeechStarted")
                             ELSE out(VadIdle, "None")
          [] vs.tag = "SpeechActive" ->
                IF is_speech THEN out(VadSpeechActive, "None")
                             ELSE out(VadSilencePending(now), "None")
          [] vs.tag = "SilencePending" ->
                IF is_speech
                THEN out(VadSpeechActive, "None")
                ELSE IF now - vs.started_at_ms >= min_silence_duration_ms
                     THEN out(VadIdle, "SpeechEnded")
                     ELSE out(vs, "None")

\* a machine that measures the silence from the start of the clock
process_absolute_silence(vs, clock, is_speech, chunk_duration_ms) ==
    LET now == clock + chunk_duration_ms
        out(s, e) == [state |-> s, clock |-> now, event |-> e]
    IN  CASE vs.tag = "Idle" ->
                IF is_speech THEN out(VadSpeechPending(now), "None")
                             ELSE out(VadIdle, "None")
          [] vs.tag = "SpeechPending" ->
                IF is_speech
                THEN IF now - vs.started_at_ms >= min_speech_duration_ms
                     THEN out(VadSpeechActive, "SpeechStarted")
                     ELSE out(vs, "None")
                ELSE out(VadIdle, "None")
          [] vs.tag = "SpeechActive" ->
                IF is_speech THEN out(VadSpeechActive, "None")
                             ELSE out(VadSilencePending(now), "None")
          [] vs.tag = "SilencePending" ->
                IF is_speech
                THEN out(VadSpeechActive, "None")
                ELSE IF now >= min_silence_duration_ms
                     THEN out(VadIdle, "SpeechEnded")
                     ELSE out(vs, "None")

\* VadStateMachine::process: the clock advances first, then the transition.
process(vs, clock, is_speech, chunk_duration_ms) ==
    LET now == clock + chunk_duration_ms
        out(s, e) == [state |-> s, clock |-> now, event |-> e]
    IN  CASE vs.tag = "Idle" ->
                IF is_speech THEN out(VadSpeechPending(now), "None")
                             ELSE out(VadIdle, "None")
          [] vs.tag = "SpeechPending" ->
                IF is_speech
                THEN IF now - vs.started_at_ms >= min_speech_duration_ms
                     THEN out(VadSpeechActive, "SpeechStarted")
                     ELSE out(vs, "None")
                ELSE out(VadIdle, "None")
          [] vs.tag = "SpeechActive" ->
                IF is_speech THEN out(VadSpeechActive, "None")
                             ELSE out(VadSilencePending(now), "None")
          [] vs.tag = "SilencePending" ->
                IF is_speech
                THEN out(VadSpeechActive, "None")
                ELSE IF now - vs.started_at_ms >= min_silence_duration_ms
                     THEN out(VadIdle, "SpeechEnded")
                     ELSE out(vs, "None")

\* capturing only while speech is heard
is_capturing_active_only(vs) == vs.tag = "SpeechActive"

is_capturing(vs) == vs.tag \in {"SpeechActive", "SilencePending"}

\* VadStateMachine::reset: back to Idle, clock to zero
vad_reset == [state |-> VadIdle, clock |-> 0]

\* a force_end that does not look at the state
force_end_any_state(vs) == [state |-> VadIdle, event |-> "MaxDurationReached"]

\* VadStateMachine::force_end: the clock is left alone
force_end(vs) ==
    IF is_capturing(vs)
    THEN [state |-> VadIdle, event |-> "MaxDurationReached"]
    ELSE [state |-> vs, event |-> "None"]

\* ----------------------------------------------------------- SpeechBuffer
pre_speech_samples == (SAMPLE_RATE * speech_pad_ms) \div 1000
max_speech_samples == SAMPLE_RATE * max_recording_duration_s

PreCapacity == IF pre_speech_samples > 1 THEN pre_speech_samples ELSE 1

push_pre_speech(pre, n) == Min(pre + n, PreCapacity)

start_speech(pre) == pre

push_speech(sp, n) ==
    LET remaining == IF max_speech_samples > sp THEN max_speech_samples - sp ELSE 0
    IN  IF remaining > 0 THEN sp + Min(n, remaining) ELSE sp

is_at_capacity(sp) == sp >= max_speech_samples

has_speech(sp) == sp > 0

\* SpeechBuffer::end_speech: the accumulated audio is taken out
end_speech(sp) == [audio |-> sp, speech |-> 0]

\* ------------------------------------------------------------------ Init
\* Pipeline::new backdates last_toggle_time by 10 s; when the Instant cannot
\* be moved back (checked_sub is None) it falls back to Instant::now().
InitialBackdateMs == 10000

\* AppState::new and VadConfig::default
DefaultConfig ==
    /\ speech_pad_ms = default_speech_pad_ms
    /\ max_recording_duration_s = default_max_recording_duration_s

\* components that are not driven on their own stay as constructed
VadUnitIdle == vad_log = <<>> /\ vad_interrupted = FALSE /\ speech_run_ms = 0

CallbackIdle == [pc |-> "idle"]
ReaderIdle == [pc |-> "idle"]

ShmIdle ==
    /\ write_pos = 0 /\ capacity = 0 /\ is_finalized = FALSE
    /\ is_recording = FALSE /\ stream = "None"
    /\ callback = CallbackIdle
    /\ mem = <<>> /\ copied_log = <<>> /\ next_sample = 1
    /\ reader = ReaderIdle

NoCall == last_call = [op |-> "none"] /\ calls = 0

ProducerIdle == [pc |-> "idle"]
PopIdle == [pc |-> "idle"]
\* AudioRecorder::new(16000, 1), nothing recorded
RecIdle ==
    /\ requested_sample_rate = 16000 /\ channels = 1
    /\ device_sample_rate = 0
    /\ consumer = "None"
    /\ rb = <<>> /\ rb_capacity = 0
    /\ producer = ProducerIdle /\ pop_loop = PopIdle
    /\ pushed = 0 /\ accepted = 0 /\ popped = <<>>

NoResponse == [req |-> 0, len |-> 0, status |-> "none"]
CallIdle ==
    [pc |-> "idle", req |-> 0, payload_size |-> 0, connects |-> 0,
     header_writes |-> 0, payload_writes |-> 0, header_failures |-> 0]
NewSocket == [wire |-> <<>>, resp |-> <<>>, alive |-> TRUE, served |-> 0]
\* a stream the client has dropped: nothing is read from it any more
Dropped == [wire |-> <<>>, resp |-> <<>>, alive |-> FALSE, served |-> 0]

IpcIdle ==
    /\ lock_owner = 0 /\ guard = 0
    /\ PATH = "unset"
    /\ env = [V2M_SOCKET_PATH |-> FALSE, XDG_RUNTIME_DIR |-> TRUE]
    /\ dir_owner = "self"
    /\ ipc = [t \in IpcThreads |-> CallIdle]
    /\ socks = <<>>
    /\ next_req = 1

NoSelection == [owner |-> "none", text |-> ""]
NothingWritten == [text |-> "", by |-> 0, valid |-> FALSE]

ClipIdle ==
    /\ CLIPBOARD = "unset" /\ handle_alive = FALSE
    /\ managers = {} /\ next_manager = 1
    /\ selection = NoSelection
    /\ written = NothingWritten

\* no SpeechBuffer has been built on its own
NoBuffer ==
    [sample_rate |-> 0, max_speech_samples |-> 0, pre_capacity |-> 0,
     pre_speech |-> <<>>, speech |-> <<>>]
NoBufferLog == [pre |-> <<>>, start |-> <<>>, started |-> FALSE,
                pushed |-> <<>>, next |-> 1, pre_speech_duration_ms |-> 0]

SbIdle == buffer = NoBuffer /\ buffer_log = NoBufferLog

\* no wait_for_data future exists
NoWaiter == [pc |-> "none"]

WaitIdle == recorder = "none" /\ notify = FALSE /\ waiter = NoWaiter

\* no detect_segments call has been made
NoSeg == [pc |-> "none"]

SegIdle == seg = NoSeg

AuxIdle == SbIdle /\ WaitIdle /\ SegIdle

ExtIdle == RecIdle /\ IpcIdle /\ ClipIdle /\ AuxIdle


InitialToggleElapsed(checked_sub_ok) ==
    IF checked_sub_ok THEN Min(InitialBackdateMs, DEBOUNCE_MS) ELSE 0

Init ==
    /\ state = "Idle"
    /\ cancel_flag = FALSE
    /\ is_running = FALSE
    /\ \E ok \in BOOLEAN : last_toggle_elapsed = InitialToggleElapsed(ok)
    /\ transcriber = "None"
    /\ h_pc = "idle"
    /\ was_running = FALSE
    /\ current_state = "Idle"
    /\ toggle_ret = "none"
    /\ toggles = 0
    /\ task_pc = "none"
    /\ result = "none"
    /\ text = "none"
    /\ errors_pending = 0
    /\ w_pc = "none"
    /\ capture_result = "none"
    /\ audio_len = 0
    /\ recording_timed_out = FALSE
    /\ vad_state = VadIdle
    /\ current_time_ms = 0
    /\ pre_speech = 0
    /\ speech = 0
    /\ speech_ever_detected = FALSE
    /\ currently_speaking = FALSE
    /\ chunks = 0
    /\ events = <<>>
    /\ clipboard = "none"
    /\ DefaultConfig
    /\ VadUnitIdle /\ ShmIdle /\ NoCall /\ ExtIdle

\* ------------------------------------------------------------------ time
\* Wall clock: only the comparison of last_toggle_time.elapsed() with
\* DEBOUNCE_MS is observed, so the elapsed time saturates there.
Tick ==
    /\ last_toggle_elapsed < DEBOUNCE_MS
    /\ last_toggle_elapsed' = Min(last_toggle_elapsed + TickMs, DEBOUNCE_MS)
    /\ UNCHANGED <<state, cancel_flag, is_running, transcriber>>
    /\ UNCHANGED <<handlerVars, taskVars, workerVars, outVars>>
    /\ UNCHANGED unitVars

\* ------------------------------------------------- Pipeline::toggle_recording
\* the debounce test of toggle_recording
debounced(elapsed) == elapsed < DEBOUNCE_MS

\* a match that starts on Idle whatever is_running says
decision_ignoring_running(running, st) ==
    CASE st = "Idle" -> "start"
      [] running /\ st = "Recording" -> "cancel"
      [] st = "Processing" -> "refuse_processing"
      [] (~running) /\ st = "Recording" -> "force_idle"

\* a match whose Recording arm resets the state instead of cancelling
decision_reset_on_recording(running, st) ==
    CASE (~running) /\ st = "Idle" -> "start"
      [] st = "Recording" -> "force_idle"
      [] st = "Processing" -> "refuse_processing"
      [] running /\ st = "Idle" -> "refuse_starting"

\* a match that cancels in Processing as it does in Recording
decision_cancel_in_processing(running, st) ==
    CASE (~running) /\ st = "Idle" -> "start"
      [] running /\ st \in {"Recording", "Processing"} -> "cancel"
      [] st = "Processing" -> "refuse_processing"
      [] running /\ st = "Idle" -> "refuse_starting"
      [] (~running) /\ st = "Recording" -> "force_idle"

\* the match on (was_running, current_state)
decision(running, st) ==
    CASE (~running) /\ st = "Idle" -> "start"
      [] running /\ st = "Recording" -> "cancel"
      [] st = "Processing" -> "refuse_processing"
      [] running /\ st = "Idle" -> "refuse_starting"
      [] (~running) /\ st = "Recording" -> "force_idle"

\* lines 188-196: debounce, then stamp last_toggle_time
ToggleEnter ==
    /\ h_pc = "idle"
    /\ IF debounced(last_toggle_elapsed)
       THEN /\ toggle_ret' = "Ok_false"
            /\ UNCHANGED <<last_toggle_elapsed, h_pc, toggles>>
       ELSE /\ toggles < MaxToggles
            /\ last_toggle_elapsed' = 0
            /\ h_pc' = "load_running"
            /\ toggle_ret' = "pending"
            /\ toggles' = toggles + 1
    /\ UNCHANGED <<state, cancel_flag, is_running, transcriber>>
    /\ UNCHANGED <<was_running, current_state>>
    /\ UNCHANGED <<taskVars, workerVars, outVars>>
    /\ UNCHANGED unitVars

\* line 199
ToggleLoadRunning ==
    /\ h_pc = "load_running"
    /\ was_running' = is_running
    /\ h_pc' = "load_state"
    /\ UNCHANGED <<pipelineVars, current_state, toggle_ret, toggles>>
    /\ UNCHANGED <<taskVars, workerVars, outVars>>
    /\ UNCHANGED unitVars

\* line 200
ToggleLoadState ==
    /\ h_pc = "load_state"
    /\ current_state' = state
    /\ h_pc' = "match"
    /\ UNCHANGED <<pipelineVars, was_running, toggle_ret, toggles>>
    /\ UNCHANGED <<taskVars, workerVars, outVars>>
    /\ UNCHANGED unitVars

\* the locals of toggle_recording cease to exist when it returns
DroppedHandlerLocals ==
    /\ was_running' = FALSE
    /\ current_state' = "Idle"

\* lines 204-234 (cancel_recording inlined: lines 307-310)
ToggleMatch ==
    /\ h_pc = "match"
    /\ LET d == decision(was_running, current_state)
       IN  /\ h_pc' = IF d = "start" THEN "cas" ELSE "idle"
           /\ toggle_ret' = IF d = "start" THEN "pending" ELSE "Ok_false"
           /\ cancel_flag' = IF d = "cancel" THEN TRUE ELSE cancel_flag
           /\ state' = IF d = "force_idle" THEN "Idle" ELSE state
           /\ events' = IF d = "force_idle"
                         THEN Append(events, StateChanged("Idle")) ELSE events
           /\ IF d = "start" THEN UNCHANGED <<was_running, current_state>>
                             ELSE DroppedHandlerLocals
    /\ UNCHANGED <<is_running, last_toggle_elapsed, transcriber>>
    /\ UNCHANGED <<toggles, clipboard>>
    /\ UNCHANGED <<taskVars, workerVars>>
    /\ UNCHANGED unitVars

\* --------------------------------------------------- Pipeline::start_recording
\* a compare_exchange that tests the flag but stores nothing
compare_exchange_no_store(flag) == [ok |-> (flag = FALSE), new |-> flag]

\* AtomicBool::compare_exchange(false, true): Ok iff the flag was false
compare_exchange(flag) == [ok |-> (flag = FALSE), new |-> IF flag = FALSE THEN TRUE ELSE flag]

\* lines 241-248
StartClaim ==
    /\ h_pc = "cas"
    /\ LET cas == compare_exchange(is_running)
       IN  /\ is_running' = cas.new
           /\ IF cas.ok
              THEN /\ h_pc' = "ensure_model"
                   /\ UNCHANGED <<toggle_ret, was_running, current_state>>
              ELSE /\ h_pc' = "idle"
                   /\ toggle_ret' = "Ok_true"
                   /\ DroppedHandlerLocals
    /\ UNCHANGED <<state, cancel_flag, last_toggle_elapsed, transcriber>>
    /\ UNCHANGED toggles
    /\ UNCHANGED <<taskVars, workerVars, outVars>>
    /\ UNCHANGED unitVars

\* lines 251-255 with ensure_model_loaded (128-152)
StartEnsureModel ==
    /\ h_pc = "ensure_model"
    /\ \E load_ok \in BOOLEAN :
         IF transcriber = "Some" \/ load_ok
         THEN /\ transcriber' = "Some"
              /\ h_pc' = "reset_cancel"
              /\ UNCHANGED <<is_running, toggle_ret, was_running, current_state>>
         ELSE /\ is_running' = FALSE
              /\ h_pc' = "idle"
              /\ toggle_ret' = "Err"
              /\ DroppedHandlerLocals
              /\ UNCHANGED transcriber
    /\ UNCHANGED <<state, cancel_flag, last_toggle_elapsed>>
    /\ UNCHANGED toggles
    /\ UNCHANGED <<taskVars, workerVars, outVars>>
    /\ UNCHANGED unitVars

\* a start_recording that leaves cancel_flag as it finds it
StartResetCancel_skipped ==
    /\ h_pc = "reset_cancel"
    /\ h_pc' = "set_recording"
    /\ UNCHANGED <<state, cancel_flag, is_running, last_toggle_elapsed>>
    /\ UNCHANGED <<transcriber, was_running, current_state, toggle_ret, toggles>>
    /\ UNCHANGED <<taskVars, workerVars, outVars>>
    /\ UNCHANGED unitVars

\* line 257
StartResetCancel ==
    /\ h_pc = "reset_cancel"
    /\ cancel_flag' = FALSE
    /\ h_pc' = "set_recording"
    /\ UNCHANGED <<state, is_running, last_toggle_elapsed, transcriber>>
    /\ UNCHANGED <<was_running, current_state, toggle_ret, toggles>>
    /\ UNCHANGED <<taskVars, workerVars, outVars>>
    /\ UNCHANGED unitVars

\* line 258: set_state(Recording)
StartSetRecording ==
    /\ h_pc = "set_recording"
    /\ state' = "Recording"
    /\ emit(StateChanged("Recording"))
    /\ h_pc' = "spawn"
    /\ UNCHANGED <<cancel_flag, is_running, last_toggle_elapsed, transcriber>>
    /\ UNCHANGED <<was_running, current_state, toggle_ret, toggles, clipboard>>
    /\ UNCHANGED <<taskVars, workerVars>>
    /\ UNCHANGED unitVars

\* lines 261-303: tokio::spawn of the session task
StartSpawn ==
    /\ h_pc = "spawn"
    /\ h_pc' = "idle"
    /\ DroppedHandlerLocals
    /\ task_pc' = "begin"
    /\ result' = "none"
    /\ text' = "none"
    /\ toggle_ret' = "Ok_true"
    /\ UNCHANGED <<pipelineVars, toggles>>
    /\ UNCHANGED <<errors_pending, workerVars, outVars>>
    /\ UNCHANGED unitVars

\* ----------------------------------------------------- run_audio_capture
\* lines 338-366: device, resampler, VAD detector, state machine, buffer.
\* Any of the three fallible constructors returns Err through `?`.
CaptureInit ==
    /\ w_pc = "init"
    /\ \E init_ok \in BOOLEAN :
         IF init_ok
         THEN /\ w_pc' = "loop"
              /\ vad_state' = VadIdle
              /\ current_time_ms' = 0
              /\ pre_speech' = 0
              /\ speech' = 0
              /\ speech_ever_detected' = FALSE
              /\ currently_speaking' = FALSE
              /\ chunks' = 0
              /\ recording_timed_out' = FALSE
              /\ UNCHANGED <<capture_result, audio_len>>
         ELSE /\ w_pc' = "returned"
              /\ capture_result' = "Err"
              /\ UNCHANGED <<audio_len, recording_timed_out, captureLocals>>
    /\ UNCHANGED <<pipelineVars, handlerVars, taskVars, outVars>>
    /\ UNCHANGED unitVars

\* line 398: recording_start.elapsed() > max_recording_duration_s + 5 s.
\* Only the truth value of the comparison is kept; it turns true once.
RecordingClockExpires ==
    /\ w_pc \in {"loop", "recv"}
    /\ ~recording_timed_out
    /\ recording_timed_out' = TRUE
    /\ UNCHANGED <<w_pc, capture_result, audio_len, captureLocals>>
    /\ UNCHANGED <<pipelineVars, handlerVars, taskVars, outVars>>
    /\ UNCHANGED unitVars

\* a cancel that discards whatever was captured
cancel_result_discarding(sp) == "Cancelled"

\* lines 379-394: what the worker returns when it observes cancel_flag
cancel_result(sp) == IF has_speech(sp) THEN "Success" ELSE "Cancelled"

\* lines 372-401: loop head, cancel check first, then the timeout
CaptureLoopHead ==
    /\ w_pc = "loop"
    /\ IF cancel_flag
       THEN /\ w_pc' = "returned"
            /\ capture_result' = cancel_result(speech)
            /\ IF cancel_result(speech) = "Success"
               THEN audio_len' = speech /\ speech' = 0
               ELSE UNCHANGED <<audio_len, speech>>
       ELSE /\ w_pc' = IF recording_timed_out THEN "finalize" ELSE "recv"
            /\ UNCHANGED <<capture_result, audio_len, speech>>
    /\ UNCHANGED <<recording_timed_out, vad_state, current_time_ms, pre_speech>>
    /\ UNCHANGED <<speech_ever_detected, currently_speaking, chunks>>
    /\ UNCHANGED <<pipelineVars, handlerVars, taskVars, outVars>>
    /\ UNCHANGED unitVars

\* lines 404-472: one received chunk, conditioned to n samples at 16 kHz
capture_chunk(is_speech, n) ==
    LET chunk_duration_ms == (n * 1000) \div SAMPLE_RATE
        pre1 == push_pre_speech(pre_speech, n)
        v == process(vad_state, current_time_ms, is_speech, chunk_duration_ms)
        first == (v.event = "SpeechStarted") /\ ~speech_ever_detected
        sp1 == IF first THEN start_speech(pre1) ELSE speech
        ever1 == speech_ever_detected \/ (v.event = "SpeechStarted")
        speaking1 == CASE v.event = "SpeechStarted" -> TRUE
                       [] v.event = "SpeechEnded" -> FALSE
                       [] OTHER -> currently_speaking
        vs1 == IF v.event = "SpeechEnded" THEN VadIdle ELSE v.state
        clock1 == IF v.event = "SpeechEnded" THEN 0 ELSE v.clock
        accumulate == ever1 /\ (is_capturing(vs1) \/ speaking1)
        sp2 == IF accumulate THEN push_speech(sp1, n) ELSE sp1
    IN  /\ pre_speech' = pre1
        /\ vad_state' = vs1
        /\ current_time_ms' = clock1
        /\ speech_ever_detected' = ever1
        /\ currently_speaking' = speaking1
        /\ IF v.event = "MaxDurationReached"
           THEN speech' = sp1 /\ w_pc' = "finalize"
           ELSE /\ speech' = sp2
                /\ w_pc' = IF accumulate /\ is_at_capacity(sp2)
                            THEN "finalize" ELSE "loop"

\* the chunk is received by the worker of a session
CaptureChunk(is_speech, n) ==
    /\ w_pc = "recv"
    /\ chunks < MaxChunks
    /\ chunks' = chunks + 1
    /\ capture_chunk(is_speech, n)
    /\ UNCHANGED <<capture_result, audio_len, recording_timed_out>>
    /\ UNCHANGED <<pipelineVars, handlerVars, taskVars, outVars>>
    /\ UNCHANGED unitVars

\* line 414: resampler.process(&chunk)? fails
CaptureResampleError ==
    /\ w_pc = "recv"
    /\ chunks < MaxChunks
    /\ chunks' = chunks + 1
    /\ w_pc' = "returned"
    /\ capture_result' = "Err"
    /\ UNCHANGED <<audio_len, recording_timed_out, vad_state, current_time_ms>>
    /\ UNCHANGED <<pre_speech, speech, speech_ever_detected, currently_speaking>>
    /\ UNCHANGED <<pipelineVars, handlerVars, taskVars, outVars>>
    /\ UNCHANGED unitVars

\* line 406: recv_timeout elapsed, continue
CaptureRecvTimeout ==
    /\ w_pc = "recv"
    /\ w_pc' = "loop"
    /\ UNCHANGED <<capture_result, audio_len, recording_timed_out, captureLocals>>
    /\ UNCHANGED <<pipelineVars, handlerVars, taskVars, outVars>>
    /\ UNCHANGED unitVars

\* lines 407-410: channel disconnected, break
CaptureDisconnected ==
    /\ w_pc = "recv"
    /\ w_pc' = "finalize"
    /\ UNCHANGED <<capture_result, audio_len, recording_timed_out, captureLocals>>
    /\ UNCHANGED <<pipelineVars, handlerVars, taskVars, outVars>>
    /\ UNCHANGED unitVars

\* a panic of the blocking worker surfaces as a JoinError at line 526
CapturePanic ==
    /\ w_pc = "recv"
    /\ w_pc' = "returned"
    /\ capture_result' = "JoinError"
    /\ UNCHANGED <<audio_len, recording_timed_out, captureLocals>>
    /\ UNCHANGED <<pipelineVars, handlerVars, taskVars, outVars>>
    /\ UNCHANGED unitVars

\* lines 475-497
CaptureFinalize ==
    /\ w_pc = "finalize"
    /\ w_pc' = "returned"
    /\ IF ~has_speech(speech)
       THEN /\ capture_result' = "NoSpeech"
            /\ UNCHANGED <<audio_len, speech>>
       ELSE /\ capture_result' = "Success"
            /\ audio_len' = speech
            /\ speech' = 0
    /\ UNCHANGED <<recording_timed_out, vad_state, current_time_ms, pre_speech>>
    /\ UNCHANGED <<speech_ever_detected, currently_speaking, chunks>>
    /\ UNCHANGED <<pipelineVars, handlerVars, taskVars, outVars>>
    /\ UNCHANGED unitVars

\* --------------------------------------------------- run_recording_pipeline
\* Every play_sound_if_enabled call spawns a thread (playback.rs:51) and
\* panics when that fails; in the session task the panic unwinds the whole
\* spawned future, skipping everything after it.
Transcripts == {"", "hello"}

\* the locals of run_audio_capture cease to exist when the worker is joined
DroppedCaptureLocals ==
    /\ vad_state' = VadIdle
    /\ current_time_ms' = 0
    /\ pre_speech' = 0
    /\ speech' = 0
    /\ speech_ever_detected' = FALSE
    /\ currently_speaking' = FALSE
    /\ chunks' = 0
    /\ recording_timed_out' = FALSE

\* lines 509-526: SpeechStarted is emitted, the capture worker is spawned
TaskBegin ==
    /\ task_pc = "begin"
    /\ emit(EvSpeechStarted)
    /\ w_pc' = "init"
    /\ capture_result' = "none"
    /\ task_pc' = "await_capture"
    /\ UNCHANGED <<result, text, errors_pending>>
    /\ UNCHANGED <<audio_len, recording_timed_out, captureLocals, clipboard>>
    /\ UNCHANGED <<pipelineVars, handlerVars>>
    /\ UNCHANGED unitVars

\* lines 522-548: the worker is joined and its result matched
TaskAwaitCapture ==
    /\ task_pc = "await_capture"
    /\ w_pc = "returned"
    /\ w_pc' = "none"
    /\ DroppedCaptureLocals
    /\ CASE capture_result \in {"Err", "JoinError"} ->
              /\ result' = IF capture_result = "Err" THEN "Err_capture" ELSE "Err_join"
              /\ task_pc' = "release"
              /\ UNCHANGED <<state, events>>
         [] capture_result = "Success" ->
              /\ emit(EvSpeechEnded)
              /\ task_pc' = "set_processing"
              /\ UNCHANGED <<state, result>>
         [] capture_result \in {"Cancelled", "NoSpeech"} ->
              /\ state' = "Idle"
              /\ emit(StateChanged("Idle"))
              /\ \E cue_ok \in BOOLEAN :
                   IF cue_ok
                   THEN result' = "Ok" /\ task_pc' = "release"
                   ELSE task_pc' = "panicked" /\ UNCHANGED result
    /\ UNCHANGED <<cancel_flag, is_running, last_toggle_elapsed, transcriber>>
    /\ UNCHANGED <<text, errors_pending, clipboard, handlerVars>>
    /\ UNCHANGED <<capture_result, audio_len>>
    /\ UNCHANGED unitVars

\* a session task that enters Processing without announcing it
TaskSetProcessing_silent ==
    /\ task_pc = "set_processing"
    /\ state' = "Processing"
    /\ \E cue_ok \in BOOLEAN :
         task_pc' = IF cue_ok THEN "transcribe" ELSE "panicked"
    /\ UNCHANGED <<cancel_flag, is_running, last_toggle_elapsed, transcriber>>
    /\ UNCHANGED <<result, text, errors_pending, clipboard, events>>
    /\ UNCHANGED <<handlerVars, workerVars>>
    /\ UNCHANGED unitVars

\* lines 551-553
TaskSetProcessing ==
    /\ task_pc = "set_processing"
    /\ state' = "Processing"
    /\ emit(StateChanged("Processing"))
    /\ \E cue_ok \in BOOLEAN :
         task_pc' = IF cue_ok THEN "transcribe" ELSE "panicked"
    /\ UNCHANGED <<cancel_flag, is_running, last_toggle_elapsed, transcriber>>
    /\ UNCHANGED <<result, text, errors_pending, clipboard>>
    /\ UNCHANGED <<handlerVars, workerVars>>
    /\ UNCHANGED unitVars

\* lines 556-578: transcribe under the transcriber lock; Err returns through
\* `?`, Ok(text) emits TranscriptionComplete
TaskTranscribe ==
    /\ task_pc = "transcribe"
    /\ IF transcriber = "None"
       THEN /\ result' = "Err_no_transcriber"
            /\ task_pc' = "release"
            /\ UNCHANGED <<text, events>>
       ELSE \E r \in Transcripts \cup {"Err"} :
              IF r = "Err"
              THEN /\ result' = "Err_transcribe"
                   /\ task_pc' = "release"
                   /\ UNCHANGED <<text, events>>
              ELSE /\ text' = r
                   /\ emit(EvTranscriptionComplete)
                   /\ task_pc' = "clipboard"
                   /\ UNCHANGED result
    /\ UNCHANGED <<pipelineVars, handlerVars, workerVars>>
    /\ UNCHANGED <<errors_pending, clipboard>>
    /\ UNCHANGED unitVars

\* lines 581-606
TaskClipboard ==
    /\ task_pc = "clipboard"
    /\ IF text # ""
       THEN \E copied \in BOOLEAN :
              IF copied
              THEN clipboard' = text /\ emit(EvCopiedToClipboard)
              ELSE emit(EvError) /\ UNCHANGED clipboard
       ELSE UNCHANGED <<clipboard, events>>
    /\ \E cue_ok \in BOOLEAN :
         task_pc' = IF cue_ok THEN "set_idle" ELSE "panicked"
    /\ UNCHANGED <<pipelineVars, handlerVars, workerVars>>
    /\ UNCHANGED <<result, text, errors_pending>>
    /\ UNCHANGED unitVars

\* lines 609-612
TaskSetIdle ==
    /\ task_pc = "set_idle"
    /\ state' = "Idle"
    /\ emit(StateChanged("Idle"))
    /\ result' = "Ok"
    /\ task_pc' = "release"
    /\ UNCHANGED <<cancel_flag, is_running, last_toggle_elapsed, transcriber>>
    /\ UNCHANGED <<text, errors_pending, clipboard>>
    /\ UNCHANGED <<handlerVars, workerVars>>
    /\ UNCHANGED unitVars

IsErr(r) == r \in {"Err_capture", "Err_join", "Err_transcribe", "Err_no_transcriber"}

\* line 289: is_running.store(false) once run_recording_pipeline returned
TaskRelease ==
    /\ task_pc = "release"
    /\ is_running' = FALSE
    /\ task_pc' = "done"
    /\ errors_pending' = IF IsErr(result) THEN errors_pending + 1 ELSE errors_pending
    /\ text' = "none"
    /\ capture_result' = "none"
    /\ audio_len' = 0
    /\ UNCHANGED <<state, cancel_flag, last_toggle_elapsed, transcriber>>
    /\ UNCHANGED <<result, w_pc, recording_timed_out, captureLocals>>
    /\ UNCHANGED <<handlerVars, outVars>>
    /\ UNCHANGED unitVars

\* lines 292-300: the Error event of a task that ended with Err
TaskEmitError ==
    /\ errors_pending > 0
    /\ errors_pending' = errors_pending - 1
    /\ emit(EvError)
    /\ UNCHANGED <<task_pc, result, text, clipboard>>
    /\ UNCHANGED <<pipelineVars, handlerVars, workerVars>>
    /\ UNCHANGED unitVars

\* ------------------------------------------------------------------ Next
Next ==
    \/ Tick
    \/ ToggleEnter
    \/ ToggleLoadRunning
    \/ ToggleLoadState
    \/ ToggleMatch
    \/ StartClaim
    \/ StartEnsureModel
    \/ StartResetCancel
    \/ StartSetRecording
    \/ StartSpawn
    \/ TaskBegin
    \/ CaptureInit
    \/ RecordingClockExpires
    \/ CaptureLoopHead
    \/ \E is_speech \in BOOLEAN, n \in ChunkSamples : CaptureChunk(is_speech, n)
    \/ CaptureResampleError
    \/ CaptureRecvTimeout
    \/ CaptureDisconnected
    \/ CapturePanic
    \/ CaptureFinalize
    \/ TaskAwaitCapture
    \/ TaskSetProcessing
    \/ TaskTranscribe
    \/ TaskClipboard
    \/ TaskSetIdle
    \/ TaskRelease
    \/ TaskEmitError

Spec == Init /\ [][Next]_vars

\* The tokio runtime runs the handler and the spawned task to their next
\* await or return, the blocking worker runs on its own thread, and every
\* recv_timeout returns within 100 ms.  Toggles, clock ticks and the
\* arrival of audio are the environment's and carry no fairness.
CaptureRecv ==
    \/ \E is_speech \in BOOLEAN, n \in ChunkSamples : CaptureChunk(is_speech, n)
    \/ CaptureResampleError
    \/ CaptureRecvTimeout
    \/ CaptureDisconnected
    \/ CapturePanic

Fairness ==
    /\ WF_vars(ToggleLoadRunning) /\ WF_vars(ToggleLoadState) /\ WF_vars(ToggleMatch)
    /\ WF_vars(StartClaim) /\ WF_vars(StartEnsureModel) /\ WF_vars(StartResetCancel)
    /\ WF_vars(StartSetRecording) /\ WF_vars(StartSpawn)
    /\ WF_vars(TaskBegin) /\ WF_vars(TaskAwaitCapture) /\ WF_vars(TaskSetProcessing)
    /\ WF_vars(TaskTranscribe) /\ WF_vars(TaskClipboard) /\ WF_vars(TaskSetIdle)
    /\ WF_vars(TaskRelease) /\ WF_vars(TaskEmitError)
    /\ WF_vars(CaptureInit) /\ WF_vars(CaptureLoopHead) /\ WF_vars(CaptureRecv)
    /\ WF_vars(CaptureFinalize)

FairSpec == Spec /\ Fairness

\* Wall time passes: recording_start.elapsed() gets past the limit of
\* line 398 if the loop is still running by then.
TimedSpec == FairSpec /\ WF_vars(RecordingClockExpires)

TypeOK ==
    /\ state \in RecordingStates
    /\ cancel_flag \in BOOLEAN
    /\ is_running \in BOOLEAN
    /\ last_toggle_elapsed \in 0..DEBOUNCE_MS
    /\ transcriber \in {"None", "Some"}

\* ============================================== components on their own
\* Everything of the orchestrator except its VadStateMachine and its
\* SpeechBuffer; it stays as constructed while a component is driven alone.
sessionVars ==
    <<pipelineVars, handlerVars, taskVars, outVars, w_pc, capture_result,
      audio_len, recording_timed_out, speech_ever_detected,
      currently_speaking, chunks>>

SessionIdle ==
    /\ state = "Idle" /\ cancel_flag = FALSE /\ is_running = FALSE
    /\ last_toggle_elapsed = InitialToggleElapsed(TRUE)
    /\ transcriber = "None"
    /\ h_pc = "idle" /\ was_running = FALSE /\ current_state = "Idle"
    /\ toggle_ret = "none" /\ toggles = 0
    /\ task_pc = "none" /\ result = "none" /\ text = "none"
    /\ errors_pending = 0
    /\ w_pc = "none" /\ capture_result = "none" /\ audio_len = 0
    /\ recording_timed_out = FALSE
    /\ speech_ever_detected = FALSE /\ currently_speaking = FALSE
    /\ chunks = 0
    /\ events = <<>> /\ clipboard = "none"

\* ------------------------------------------------------- VadStateMachine
\* VadStateMachine::new(VadConfig::default())
VadInit ==
    /\ SessionIdle /\ DefaultConfig /\ ShmIdle /\ NoCall /\ ExtIdle
    /\ pre_speech = 0 /\ speech = 0
    /\ vad_state = VadIdle
    /\ current_time_ms = 0
    /\ VadUnitIdle

VadProcess(is_speech, chunk_duration_ms) ==
    /\ calls < MaxVadCalls
    /\ LET r == process(vad_state, current_time_ms, is_speech, chunk_duration_ms)
       IN  /\ vad_state' = r.state
           /\ current_time_ms' = r.clock
           /\ vad_log' = IF r.event = "None" THEN vad_log
                                             ELSE Append(vad_log, r.event)
           /\ last_call' = [op |-> "process", is_speech |-> is_speech,
                            chunk_ms |-> chunk_duration_ms,
                            pre |-> vad_state, pre_clock |-> current_time_ms,
                            event |-> r.event]
    /\ speech_run_ms' =
          IF ~is_speech THEN 0
          ELSE IF vad_state.tag = "Idle" THEN chunk_duration_ms
          ELSE IF speech_run_ms > 0 THEN speech_run_ms + chunk_duration_ms
          ELSE 0
    /\ calls' = calls + 1
    /\ UNCHANGED <<vad_interrupted, pre_speech, speech>>
    /\ UNCHANGED <<sessionVars, configVars, shmVars, extVars>>

VadReset ==
    /\ calls < MaxVadCalls
    /\ vad_state' = vad_reset.state
    /\ current_time_ms' = vad_reset.clock
    /\ vad_interrupted' = (vad_interrupted \/ is_capturing(vad_state))
    /\ speech_run_ms' = 0
    /\ last_call' = [op |-> "reset"]
    /\ calls' = calls + 1
    /\ UNCHANGED <<vad_log, pre_speech, speech>>
    /\ UNCHANGED <<sessionVars, configVars, shmVars, extVars>>

VadForceEnd ==
    /\ calls < MaxVadCalls
    /\ LET r == force_end(vad_state)
       IN  /\ vad_state' = r.state
           /\ vad_log' = IF r.event = "None" THEN vad_log
                                             ELSE Append(vad_log, r.event)
           /\ last_call' = [op |-> "force_end", event |-> r.event]
    /\ vad_interrupted' = (vad_interrupted \/ is_capturing(vad_state))
    /\ speech_run_ms' = 0
    /\ calls' = calls + 1
    /\ UNCHANGED <<current_time_ms, pre_speech, speech>>
    /\ UNCHANGED <<sessionVars, configVars, shmVars, extVars>>

VadNext ==
    \/ \E is_speech \in BOOLEAN, d \in VadChunkMs : VadProcess(is_speech, d)
    \/ VadReset
    \/ VadForceEnd

VadSpec == VadInit /\ [][VadNext]_vars

\* ---------------------------------------------------------- SpeechBuffer
\* SpeechBuffer::new(16000, speech_pad_ms, max_recording_duration_s)
BufInit ==
    /\ SessionIdle /\ ShmIdle /\ VadUnitIdle /\ NoCall /\ ExtIdle
    /\ vad_state = VadIdle /\ current_time_ms = 0
    /\ speech_pad_ms \in BufPadMs
    /\ max_recording_duration_s \in BufMaxS
    /\ pre_speech = 0
    /\ speech = 0

BufPushPreSpeech(n) ==
    /\ calls < MaxBufCalls
    /\ pre_speech' = push_pre_speech(pre_speech, n)
    /\ last_call' = [op |-> "push_pre_speech", n |-> n]
    /\ calls' = calls + 1
    /\ UNCHANGED <<speech, vad_state, current_time_ms>>
    /\ UNCHANGED <<sessionVars, configVars, vadUnitVars, shmVars, extVars>>

BufStartSpeech ==
    /\ calls < MaxBufCalls
    /\ speech' = start_speech(pre_speech)
    /\ last_call' = [op |-> "start_speech"]
    /\ calls' = calls + 1
    /\ UNCHANGED <<pre_speech, vad_state, current_time_ms>>
    /\ UNCHANGED <<sessionVars, configVars, vadUnitVars, shmVars, extVars>>

BufPushSpeech(n) ==
    /\ calls < MaxBufCalls
    /\ speech' = push_speech(speech, n)
    /\ last_call' = [op |-> "push_speech", n |-> n]
    /\ calls' = calls + 1
    /\ UNCHANGED <<pre_speech, vad_state, current_time_ms>>
    /\ UNCHANGED <<sessionVars, configVars, vadUnitVars, shmVars, extVars>>

BufEndSpeech ==
    /\ calls < MaxBufCalls
    /\ speech' = end_speech(speech).speech
    /\ last_call' = [op |-> "end_speech", audio |-> end_speech(speech).audio]
    /\ calls' = calls + 1
    /\ UNCHANGED <<pre_speech, vad_state, current_time_ms>>
    /\ UNCHANGED <<sessionVars, configVars, vadUnitVars, shmVars, extVars>>

BufNext ==
    \/ \E n \in BufSamples : BufPushPreSpeech(n)
    \/ BufStartSpeech
    \/ \E n \in BufSamples : BufPushSpeech(n)
    \/ BufEndSpeech

BufSpec == BufInit /\ [][BufNext]_vars

\* --------------------------- SharedAudioBuffer / ZeroCopyAudioRecorder
\* a write that does not look at the room left
samples_to_write_unclamped(finalized, current_pos, cap, len) ==
    IF finalized THEN 0 ELSE len

\* write_samples, lines 333-339: how many samples it is going to copy.
\* `capacity - current_pos` is a usize subtraction: past the capacity it
\* wraps to a value no slice length reaches, and the minimum is the length.
samples_to_write(finalized, current_pos, cap, len) ==
    IF finalized THEN 0
    ELSE IF cap >= current_pos THEN Min(len, cap - current_pos)
    ELSE len

\* SharedAudioBuffer::reset
shm_reset == [write_pos |-> 0, is_finalized |-> FALSE]

\* ZeroCopyAudioRecorder::new(sample_rate, channels, max_duration_sec)
ShmInit ==
    /\ SessionIdle /\ DefaultConfig /\ VadUnitIdle /\ NoCall /\ ExtIdle
    /\ vad_state = VadIdle /\ current_time_ms = 0
    /\ pre_speech = 0 /\ speech = 0
    /\ capacity \in ShmCapacities
    /\ write_pos = 0
    /\ is_finalized = FALSE
    /\ is_recording = FALSE
    /\ stream = "None"
    /\ callback = CallbackIdle
    /\ mem = [i \in 1..capacity |-> 0]
    /\ copied_log = <<>>
    /\ next_sample = 1
    /\ reader = ReaderIdle

shmFrame ==
    <<sessionVars, configVars, vadUnitVars, vad_state, current_time_ms,
      pre_speech, speech, capacity, extVars>>

\* ZeroCopyAudioRecorder::start: refused while recording; otherwise the
\* buffer is reset, and the device or the stream may fail after that.
\* start, stop and read_as_numpy run on the one thread that owns the
\* recorder, so none of them begins while another is in progress.
RecorderStart ==
    /\ calls < MaxShmCalls
    /\ reader.pc = "idle"
    /\ IF is_recording
       THEN /\ last_call' = [op |-> "start", ret |-> "Err"]
            /\ UNCHANGED <<write_pos, is_finalized, is_recording, stream, copied_log>>
       ELSE /\ write_pos' = shm_reset.write_pos
            /\ is_finalized' = shm_reset.is_finalized
            /\ copied_log' = <<>>
            /\ \E ok \in BOOLEAN :
                 IF ok
                 THEN /\ stream' = "Some" /\ is_recording' = TRUE
                      /\ last_call' = [op |-> "start", ret |-> "Ok"]
                 ELSE /\ UNCHANGED <<stream, is_recording>>
                      /\ last_call' = [op |-> "start", ret |-> "Err"]
    /\ calls' = calls + 1
    /\ UNCHANGED <<callback, mem, next_sample, reader, shmFrame>>

\* the input callback enters write_samples(data): lines 333-341
CallbackLoad(len) ==
    /\ calls < MaxShmCalls
    /\ stream = "Some"
    /\ callback.pc = "idle"
    /\ next_sample' = next_sample + len
    /\ LET k == samples_to_write(is_finalized, write_pos, capacity, len)
       IN  IF k = 0
           THEN /\ last_call' = [op |-> "write_samples", len |-> len, written |-> 0]
                /\ calls' = calls + 1
                /\ UNCHANGED callback
           ELSE /\ callback' = [pc |-> "copy", len |-> len,
                                current_pos |-> write_pos,
                                samples_to_write |-> k,
                                first |-> next_sample]
                /\ UNCHANGED <<last_call, calls>>
    /\ UNCHANGED <<write_pos, is_finalized, is_recording, stream, shmFrame>>
    /\ UNCHANGED <<mem, copied_log, reader>>

\* the samples data[0..k) of the callback in progress
CallbackData ==
    [i \in 1..callback.samples_to_write |-> callback.first + i - 1]

\* a write that moves on without copying
CallbackCopy_skipped ==
    /\ callback.pc = "copy"
    /\ callback' = [callback EXCEPT !.pc = "publish"]
    /\ copied_log' = copied_log \o CallbackData
    /\ UNCHANGED <<write_pos, is_finalized, is_recording, stream, shmFrame>>
    /\ UNCHANGED <<mem, next_sample, reader, callVars>>

\* lines 344-351: copy_nonoverlapping(samples, ptr.add(current_pos), k)
CallbackCopy ==
    /\ callback.pc = "copy"
    /\ mem' = [i \in 1..capacity |->
                 IF /\ i > callback.current_pos
                    /\ i <= callback.current_pos + callback.samples_to_write
                 THEN CallbackData[i - callback.current_pos]
                 ELSE mem[i]]
    /\ copied_log' = copied_log \o CallbackData
    /\ callback' = [callback EXCEPT !.pc = "publish"]
    /\ UNCHANGED <<write_pos, is_finalized, is_recording, stream, shmFrame>>
    /\ UNCHANGED <<next_sample, reader, callVars>>

\* lines 353-354: write_pos.fetch_add(samples_to_write), Release
CallbackCommit ==
    /\ callback.pc = "publish"
    /\ write_pos' = write_pos + callback.samples_to_write
    /\ last_call' = [op |-> "write_samples", len |-> callback.len,
                     written |-> callback.samples_to_write]
    /\ calls' = calls + 1
    /\ callback' = CallbackIdle
    /\ UNCHANGED <<is_finalized, is_recording, stream, shmFrame>>
    /\ UNCHANGED <<mem, copied_log, next_sample, reader>>

\* read_as_numpy, line 460: data_len = write_pos.load(Acquire)
ReaderLoad ==
    /\ calls < MaxShmCalls
    /\ reader.pc = "idle"
    /\ reader' = [pc |-> "read", data_len |-> write_pos]
    /\ UNCHANGED <<write_pos, is_finalized, is_recording, stream, shmFrame>>
    /\ UNCHANGED <<callback, mem, copied_log, next_sample, callVars>>

\* read_as_numpy, lines 461-471: from_raw_parts(ptr, data_len).to_vec()
ReaderRead ==
    /\ reader.pc = "read"
    /\ last_call' = [op |-> "read_as_numpy", data_len |-> reader.data_len,
                     data |-> SubSeq(mem, 1, reader.data_len)]
    /\ calls' = calls + 1
    /\ reader' = ReaderIdle
    /\ UNCHANGED <<write_pos, is_finalized, is_recording, stream, shmFrame>>
    /\ UNCHANGED <<callback, mem, copied_log, next_sample>>

\* ZeroCopyAudioRecorder::stop: dropping the stream ends the audio thread
\* (it waits for a callback in progress), then the buffer is finalized
RecorderStop ==
    /\ calls < MaxShmCalls
    /\ callback.pc = "idle"
    /\ reader.pc = "idle"
    /\ IF ~is_recording
       THEN /\ last_call' = [op |-> "stop", ret |-> "Err"]
            /\ UNCHANGED <<is_finalized, is_recording, stream>>
       ELSE /\ stream' = "None"
            /\ is_recording' = FALSE
            /\ is_finalized' = TRUE
            /\ last_call' = [op |-> "stop", ret |-> "Ok", data_len |-> write_pos]
    /\ calls' = calls + 1
    /\ UNCHANGED <<write_pos, callback, shmFrame>>
    /\ UNCHANGED <<mem, copied_log, next_sample, reader>>

ShmNext ==
    \/ RecorderStart
    \/ \E len \in ShmChunk : CallbackLoad(len)
    \/ CallbackCopy
    \/ CallbackCommit
    \/ ReaderLoad
    \/ ReaderRead
    \/ RecorderStop

ShmSpec == ShmInit /\ [][ShmNext]_vars

\* ------------------------------------------------------- AudioRecorder
\* The ring-buffer recorder of v2m_engine (backend and daemon): start()
\* chooses the device configuration and builds the ring, the input
\* callback pushes with push_slice, read_chunk and stop pop with try_pop.
\* start, read_chunk and stop run on the thread that owns the recorder
\* (pyclass unsendable); the callback runs on the audio thread.

\* a SupportedStreamConfigRange: channels, min_sample_rate, max_sample_rate
ConfigRanges ==
    { [channels |-> ch, min |-> lo, max |-> hi] :
        ch \in ChannelCounts, lo \in DeviceRates, hi \in DeviceRates }
SupportedRanges == { c \in ConfigRanges : c.min <= c.max }

ConfigLists ==
    UNION { [1..n -> SupportedRanges] : n \in 0..MaxConfigs }

\* .filter(|c| c.channels() == self.channels)
matching(supported_configs, ch) ==
    { i \in 1..Len(supported_configs) : supported_configs[i].channels = ch }

\* a selection that takes the first range with the channel count
best_config_range_first(supported_configs, ch) ==
    LET M == matching(supported_configs, ch)
    IN  IF M = {} THEN 0
        ELSE CHOOSE i \in M : \A j \in M : i <= j

\* .max_by_key(|c| c.max_sample_rate()): the index of the chosen range,
\* 0 for None; among equal keys max_by_key returns the last one
best_config_range(supported_configs, ch) ==
    LET M == matching(supported_configs, ch)
    IN  IF M = {} THEN 0
        ELSE CHOOSE i \in M :
               \A j \in M :
                  \/ supported_configs[j].max < supported_configs[i].max
                  \/ /\ supported_configs[j].max = supported_configs[i].max
                     /\ j <= i

target_rate(c, req_rate) ==
    IF c.min <= req_rate /\ c.max >= req_rate THEN req_rate ELSE c.max

\* the ring of AudioRecorder is counted in blocks: one block is the ring
\* of a device running at 8000 Hz
BlockSamples == 8000 * RING_SECONDS

\* buffer_size = device_sample_rate * 60 * 10, in blocks
buffer_size(rate) == (rate * RING_SECONDS) \div BlockSamples

RecInit ==
    /\ SessionIdle /\ DefaultConfig /\ VadUnitIdle /\ ShmIdle /\ NoCall
    /\ vad_state = VadIdle /\ current_time_ms = 0
    /\ pre_speech = 0 /\ speech = 0
    /\ requested_sample_rate \in RequestedRates
    /\ channels \in ChannelCounts
    /\ device_sample_rate = 0
    /\ consumer = "None"
    /\ rb = <<>> /\ rb_capacity = 0
    /\ producer = ProducerIdle /\ pop_loop = PopIdle
    /\ pushed = 0 /\ accepted = 0 /\ popped = <<>>
    /\ IpcIdle /\ ClipIdle /\ AuxIdle

recFrame ==
    <<sessionVars, configVars, vadUnitVars, vad_state, current_time_ms,
      pre_speech, speech, write_pos, capacity, is_finalized, callback,
      mem, copied_log, next_sample, reader,
      requested_sample_rate, channels, ipcVars, clipVars, auxVars>>

\* AudioRecorder::start. `device` is what the host answers: no input
\* device, a failing query, or the list of supported configurations.
AudioStart(device, supported_configs) ==
    /\ calls < MaxRecCalls
    /\ pop_loop.pc = "idle"
    /\ calls' = calls + 1
    /\ UNCHANGED <<producer, pop_loop, recFrame>>
    /\ IF is_recording \/ device # "ok"
       THEN /\ last_call' = [op |-> "start", ret |-> "Err", selected |-> FALSE]
            /\ UNCHANGED <<stream, is_recording, device_sample_rate, consumer,
                           rb, rb_capacity, pushed, accepted, popped>>
       ELSE LET best == best_config_range(supported_configs, channels)
            IN  IF best = 0
                THEN /\ last_call' = [op |-> "start", ret |-> "Err",
                                      selected |-> TRUE,
                                      supported_configs |-> supported_configs,
                                      best |-> 0]
                     /\ UNCHANGED <<stream, is_recording, device_sample_rate,
                                    consumer, rb, rb_capacity, pushed,
                                    accepted, popped>>
                ELSE /\ device_sample_rate' =
                           target_rate(supported_configs[best],
                                       requested_sample_rate)
                     /\ rb_capacity' = buffer_size(device_sample_rate')
                     /\ rb' = <<>>
                     /\ consumer' = "Some"
                     /\ pushed' = 0 /\ accepted' = 0 /\ popped' = <<>>
                     /\ \E stream_ok \in BOOLEAN :
                          /\ last_call' =
                                [op |-> "start",
                                 ret |-> IF stream_ok THEN "Ok" ELSE "Err",
                                 selected |-> TRUE,
                                 supported_configs |-> supported_configs,
                                 best |-> best]
                          /\ IF stream_ok
                             THEN stream' = "Some" /\ is_recording' = TRUE
                             ELSE UNCHANGED <<stream, is_recording>>

\* the callback enters push_slice(data): the free room is read first
PushLoad(len) ==
    /\ calls < MaxRecCalls
    /\ stream = "Some"
    /\ producer.pc = "idle"
    /\ producer' = [pc |-> "push", len |-> len,
                    occupied |-> Len(rb),
                    n |-> Min(len, rb_capacity - Len(rb))]
    /\ UNCHANGED <<stream, is_recording, device_sample_rate, consumer, rb,
                   rb_capacity, pop_loop, pushed, accepted, popped>>
    /\ UNCHANGED <<callVars, recFrame>>

\* push_slice writes the first n samples of data and publishes them
PushCommit ==
    /\ producer.pc = "push"
    /\ rb' = rb \o [i \in 1..producer.n |-> pushed + i]
    /\ pushed' = pushed + producer.len
    /\ accepted' = accepted + producer.n
    /\ last_call' = [op |-> "push_slice", len |-> producer.len,
                     n |-> producer.n, occupied |-> producer.occupied]
    /\ calls' = calls + 1
    /\ producer' = ProducerIdle
    /\ UNCHANGED <<stream, is_recording, device_sample_rate, consumer,
                   rb_capacity, pop_loop, popped, recFrame>>

\* daemon AudioRecorder::read_chunk
ReadChunk ==
    /\ calls < MaxRecCalls
    /\ pop_loop.pc = "idle"
    /\ IF consumer = "Some"
       THEN /\ pop_loop' = [pc |-> "pop", op |-> "read_chunk", data |-> <<>>]
            /\ UNCHANGED callVars
       ELSE /\ last_call' = [op |-> "read_chunk", data |-> <<>>]
            /\ calls' = calls + 1
            /\ UNCHANGED pop_loop
    /\ UNCHANGED <<stream, is_recording, device_sample_rate, consumer, rb,
                   rb_capacity, producer, pushed, accepted, popped, recFrame>>

\* a try_pop that hands the oldest sample out again without removing it
TryPop_peek ==
    /\ pop_loop.pc = "pop"
    /\ IF rb # <<>> /\ Len(pop_loop.data) < Len(rb)
       THEN /\ pop_loop' = [pop_loop EXCEPT !.data = Append(@, Head(rb))]
            /\ popped' = Append(popped, Head(rb))
            /\ UNCHANGED callVars
       ELSE /\ last_call' = [op |-> pop_loop.op, data |-> pop_loop.data]
            /\ calls' = calls + 1
            /\ pop_loop' = PopIdle
            /\ UNCHANGED popped
    /\ UNCHANGED <<stream, is_recording, device_sample_rate, consumer, rb,
                   rb_capacity, producer, pushed, accepted, recFrame>>

\* one turn of `while let Some(s) = consumer.try_pop() { data.push(s) }`
TryPop ==
    /\ pop_loop.pc = "pop"
    /\ IF rb # <<>>
       THEN /\ rb' = Tail(rb)
            /\ pop_loop' = [pop_loop EXCEPT !.data = Append(@, Head(rb))]
            /\ popped' = Append(popped, Head(rb))
            /\ UNCHANGED callVars
       ELSE /\ last_call' = [op |-> pop_loop.op, data |-> pop_loop.data]
            /\ calls' = calls + 1
            /\ pop_loop' = PopIdle
            /\ UNCHANGED <<rb, popped>>
    /\ UNCHANGED <<stream, is_recording, device_sample_rate, consumer,
                   rb_capacity, producer, pushed, accepted, recFrame>>

\* AudioRecorder::stop up to the draining loop: the stream is dropped
\* (which ends the audio thread), then the consumer is taken and drained
AudioStop ==
    /\ calls < MaxRecCalls
    /\ pop_loop.pc = "idle"
    /\ producer.pc = "idle"
    /\ IF ~is_recording
       THEN /\ last_call' = [op |-> "stop", ret |-> "Err"]
            /\ calls' = calls + 1
            /\ UNCHANGED <<stream, is_recording, consumer, pop_loop>>
       ELSE /\ stream' = "None"
            /\ is_recording' = FALSE
            /\ IF consumer = "Some"
               THEN /\ consumer' = "None"
                    /\ pop_loop' = [pc |-> "pop", op |-> "stop", data |-> <<>>]
                    /\ UNCHANGED callVars
               ELSE /\ last_call' = [op |-> "stop", data |-> <<>>]
                    /\ calls' = calls + 1
                    /\ UNCHANGED <<consumer, pop_loop>>
    /\ UNCHANGED <<device_sample_rate, rb, rb_capacity, producer, pushed,
                   accepted, popped, recFrame>>

RecNext ==
    \/ \E device \in {"none", "query_failed"} : AudioStart(device, <<>>)
    \/ \E supported_configs \in ConfigLists :
            AudioStart("ok", supported_configs)
    \/ \E len \in RecChunk : PushLoad(len)
    \/ PushCommit
    \/ ReadChunk
    \/ TryPop
    \/ AudioStop

RecSpec == RecInit /\ [][RecNext]_vars

\* ----------------------------------------------------------- IPC client
\* send_json_request of the Tauri bridge: commands run on several threads,
\* share one cached UnixStream behind the CONNECTION mutex, and speak
\* length-prefixed frames with the daemon. The daemon is the environment:
\* it answers each complete request frame of a connection with one
\* response frame, when it pleases, and may close a connection at any time.

request_too_large(payload_size) == payload_size > MAX_REQUEST_SIZE

\* a limit that also refuses a response of exactly the maximum size
response_too_large_inclusive(response_len) == response_len >= MAX_RESPONSE_SIZE

response_too_large(response_len) == response_len > MAX_RESPONSE_SIZE

\* socket_path(): the closure of PATH.get_or_init
socket_path_init ==
    IF env.V2M_SOCKET_PATH THEN "$V2M_SOCKET_PATH"
    ELSE IF env.XDG_RUNTIME_DIR THEN "$XDG_RUNTIME_DIR/v2m/v2m.sock"
    ELSE "/tmp/v2m_<uid>/v2m.sock"

\* what a call of socket_path() leaves behind: PATH is set once; a missing
\* directory is created (the result of create_dir_all is ignored); a
\* directory of another owner is reported on stderr and used all the same
socket_path_called ==
    /\ PATH' = IF PATH = "unset" THEN socket_path_init ELSE PATH
    /\ IF PATH = "unset" /\ ~env.V2M_SOCKET_PATH /\ dir_owner = "absent"
       THEN dir_owner' \in {"absent", "self"}
       ELSE UNCHANGED dir_owner

ipcFrame ==
    <<sessionVars, configVars, vadUnitVars, vad_state, current_time_ms,
      pre_speech, speech, shmVars, recVars, clipVars, auxVars, env>>

IpcInit ==
    /\ SessionIdle /\ DefaultConfig /\ VadUnitIdle /\ ShmIdle /\ NoCall
    /\ vad_state = VadIdle /\ current_time_ms = 0
    /\ pre_speech = 0 /\ speech = 0
    /\ RecIdle /\ ClipIdle /\ AuxIdle
    /\ lock_owner = 0 /\ guard = 0
    /\ PATH = "unset"
    /\ \E e \in Environments :
         /\ env = [V2M_SOCKET_PATH |-> e.V2M_SOCKET_PATH,
                   XDG_RUNTIME_DIR |-> e.XDG_RUNTIME_DIR]
         /\ dir_owner = e.dir
    /\ ipc = [t \in IpcThreads |-> CallIdle]
    /\ socks = <<>>
    /\ next_req = 1

\* every `return` of send_json_request: the MutexGuard is dropped.
\* `c` holds the locals of the call at that point.
Return(t, c, code, resp, body_read, guard_after) ==
    /\ last_call' = [op |-> "send_json_request", thread |-> t,
                     req |-> c.req,
                     payload_size |-> c.payload_size,
                     code |-> code,
                     connects |-> c.connects,
                     header_writes |-> c.header_writes,
                     header_failures |-> c.header_failures,
                     payload_writes |-> c.payload_writes,
                     resp |-> resp, body_read |-> body_read,
                     guard_after |-> guard_after]
    /\ calls' = calls + 1
    /\ ipc' = [ipc EXCEPT ![t] = CallIdle]
    /\ lock_owner' = 0

\* lines 168-188: take the lock, serialize, check the request size
Begin(t, payload_size) ==
    /\ next_req <= MaxIpcCalls
    /\ ipc[t].pc = "idle"
    /\ lock_owner = 0
    /\ next_req' = next_req + 1
    /\ LET c == [CallIdle EXCEPT !.pc = "ensure", !.req = next_req,
                                 !.payload_size = payload_size]
       IN  IF request_too_large(payload_size)
           THEN Return(t, c, "REQUEST_TOO_LARGE", NoResponse, FALSE, guard)
           ELSE /\ ipc' = [ipc EXCEPT ![t] = c]
                /\ lock_owner' = t
                /\ UNCHANGED callVars
    /\ UNCHANGED <<guard, PATH, dir_owner, socks, ipcFrame>>

\* lines 191-197: if guard.is_none() { connect, set_read_timeout }
Ensure(t, outcome) ==
    /\ ipc[t].pc = "ensure"
    /\ IF guard # 0
       THEN /\ outcome = "ok"
            /\ ipc' = [ipc EXCEPT ![t].pc = "header"]
            /\ UNCHANGED <<guard, PATH, dir_owner, socks, lock_owner, callVars>>
       ELSE /\ socket_path_called
            /\ IF outcome = "ok"
               THEN /\ socks' = Append(socks, NewSocket)
                    /\ guard' = Len(socks) + 1
                    /\ ipc' = [ipc EXCEPT ![t].pc = "header",
                                          ![t].connects = @ + 1]
                    /\ UNCHANGED <<lock_owner, callVars>>
               ELSE /\ Return(t, [ipc[t] EXCEPT !.connects = @ + 1],
                              "IPC_ERROR", NoResponse, FALSE, guard)
                    /\ UNCHANGED <<guard, socks>>
    /\ UNCHANGED <<next_req, ipcFrame>>

\* lines 203-206: write_all(&len.to_be_bytes()) on the cached stream
WriteHeader(t) ==
    /\ ipc[t].pc = "header"
    /\ IF socks[guard].alive
       THEN /\ socks' = [socks EXCEPT ![guard].wire =
                                        Append(@, <<"len", ipc[t].req>>)]
            /\ ipc' = [ipc EXCEPT ![t].pc = "payload",
                                  ![t].header_writes = @ + 1]
       ELSE /\ ipc' = [ipc EXCEPT ![t].pc = "reconnect",
                                  ![t].header_failures = @ + 1]
            /\ UNCHANGED socks
    /\ UNCHANGED <<lock_owner, guard, PATH, dir_owner, next_req, callVars,
                   ipcFrame>>

\* lines 208-217: the write failed, connect again and replace the stream
Reconnect(t, outcome) ==
    /\ ipc[t].pc = "reconnect"
    /\ socket_path_called
    /\ IF outcome = "ok"
       THEN /\ socks' = Append([socks EXCEPT ![guard] = Dropped], NewSocket)
            /\ guard' = Len(socks) + 1
            /\ ipc' = [ipc EXCEPT ![t].pc = "retry_header",
                                  ![t].connects = @ + 1]
            /\ UNCHANGED <<lock_owner, callVars>>
       ELSE /\ Return(t, [ipc[t] EXCEPT !.connects = @ + 1],
                      "IPC_ERROR", NoResponse, FALSE, guard)
            /\ UNCHANGED <<guard, socks>>
    /\ UNCHANGED <<next_req, ipcFrame>>

\* a retry that goes back to reconnecting when the header fails again
RetryHeader_again(t) ==
    /\ ipc[t].pc = "retry_header"
    /\ IF socks[guard].alive
       THEN /\ socks' = [socks EXCEPT ![guard].wire =
                                        Append(@, <<"len", ipc[t].req>>)]
            /\ ipc' = [ipc EXCEPT ![t].pc = "payload",
                                  ![t].header_writes = @ + 1]
       ELSE /\ ipc' = [ipc EXCEPT ![t].pc = "reconnect",
                                  ![t].header_failures = @ + 1]
            /\ UNCHANGED socks
    /\ UNCHANGED <<lock_owner, guard, PATH, dir_owner, next_req, callVars,
                   ipcFrame>>

\* lines 219-221: the header is written once more on the new stream
RetryHeader(t) ==
    /\ ipc[t].pc = "retry_header"
    /\ IF socks[guard].alive
       THEN /\ socks' = [socks EXCEPT ![guard].wire =
                                        Append(@, <<"len", ipc[t].req>>)]
            /\ ipc' = [ipc EXCEPT ![t].pc = "payload",
                                  ![t].header_writes = @ + 1]
            /\ UNCHANGED <<lock_owner, callVars>>
       ELSE /\ Return(t, [ipc[t] EXCEPT !.header_failures = @ + 1],
                      "IPC_ERROR", NoResponse, FALSE, guard)
            /\ UNCHANGED socks
    /\ UNCHANGED <<guard, PATH, dir_owner, next_req, ipcFrame>>

\* lines 224-226: write_all(&json_payload)
WritePayload(t) ==
    /\ ipc[t].pc = "payload"
    /\ IF socks[guard].alive
       THEN /\ socks' = [socks EXCEPT ![guard].wire =
                                        Append(@, <<"json", ipc[t].req>>)]
            /\ ipc' = [ipc EXCEPT ![t].pc = "read_header",
                                  ![t].payload_writes = @ + 1]
            /\ UNCHANGED <<lock_owner, callVars>>
       ELSE /\ Return(t, ipc[t], "IPC_ERROR", NoResponse, FALSE, guard)
            /\ UNCHANGED socks
    /\ UNCHANGED <<guard, PATH, dir_owner, next_req, ipcFrame>>

\* a failed read that leaves the stream in the cache
ReadHeaderFail_keep(t) ==
    /\ ipc[t].pc = "read_header"
    /\ socks[guard].resp = <<>>
    /\ Return(t, ipc[t], "IPC_ERROR", NoResponse, FALSE, 0)
    /\ UNCHANGED <<guard, socks, PATH, dir_owner, next_req, ipcFrame>>

\* lines 229-233: read_exact(&mut len_buf) fails (end of stream, or no
\* response within READ_TIMEOUT_SECS): the cached stream is dropped
ReadHeaderFail(t) ==
    /\ ipc[t].pc = "read_header"
    /\ socks[guard].resp = <<>>
    /\ guard' = 0
    /\ socks' = [socks EXCEPT ![guard] = Dropped]
    /\ Return(t, ipc[t], "IPC_ERROR", NoResponse, FALSE, 0)
    /\ UNCHANGED <<PATH, dir_owner, next_req, ipcFrame>>

\* lines 229-262: the length header arrives; the body is read unless the
\* length is over the limit; then the response is deserialized
ReadResponse(t, body_ok) ==
    /\ ipc[t].pc = "read_header"
    /\ socks[guard].resp # <<>>
    /\ LET r == Head(socks[guard].resp)
       IN  IF response_too_large(r.len)
           THEN /\ guard' = 0
                /\ socks' = [socks EXCEPT ![guard] = Dropped]
                /\ Return(t, ipc[t], "PAYLOAD_TOO_LARGE", r, FALSE, 0)
           ELSE IF ~body_ok
           THEN /\ guard' = 0
                /\ socks' = [socks EXCEPT ![guard] = Dropped]
                /\ Return(t, ipc[t], "IPC_ERROR", r, FALSE, 0)
           ELSE /\ UNCHANGED guard
                /\ socks' = [socks EXCEPT ![guard].resp = Tail(@)]
                /\ Return(t, ipc[t],
                          CASE r.status = "success" -> "OK"
                            [] r.status = "error" -> "DAEMON_ERROR"
                            [] OTHER -> "IPC_ERROR",
                          r, TRUE, guard)
    /\ UNCHANGED <<PATH, dir_owner, next_req, ipcFrame>>

\* the daemon answers the next complete request frame of a connection
ServerRespond(c, response) ==
    /\ c \in 1..Len(socks)
    /\ socks[c].alive
    /\ Len(socks[c].wire) >= 2 * socks[c].served + 2
    /\ LET h == socks[c].wire[2 * socks[c].served + 1]
       IN  socks' = [socks EXCEPT
                       ![c].served = @ + 1,
                       ![c].resp = Append(@, [req |-> h[2],
                                              len |-> response.len,
                                              status |-> response.status])]
    /\ UNCHANGED <<lock_owner, guard, PATH, dir_owner, ipc, next_req,
                   callVars, ipcFrame>>

\* the daemon closes a connection (restart, shutdown, error)
ServerClose(c) ==
    /\ c \in 1..Len(socks)
    /\ socks[c].alive
    /\ socks' = [socks EXCEPT ![c].alive = FALSE]
    /\ UNCHANGED <<lock_owner, guard, PATH, dir_owner, ipc, next_req,
                   callVars, ipcFrame>>

IpcNext ==
    \/ \E t \in IpcThreads, payload_size \in PayloadSizes :
            Begin(t, payload_size)
    \/ \E t \in IpcThreads, outcome \in {"ok", "failed"} : Ensure(t, outcome)
    \/ \E t \in IpcThreads : WriteHeader(t)
    \/ \E t \in IpcThreads, outcome \in {"ok", "failed"} :
            Reconnect(t, outcome)
    \/ \E t \in IpcThreads : RetryHeader(t)
    \/ \E t \in IpcThreads : WritePayload(t)
    \/ \E t \in IpcThreads : ReadHeaderFail(t)
    \/ \E t \in IpcThreads, body_ok \in BOOLEAN : ReadResponse(t, body_ok)
    \/ \E c \in 1..Len(socks), response \in Responses :
            ServerRespond(c, response)
    \/ \E c \in 1..Len(socks) : ServerClose(c)

IpcSpec == IpcInit /\ [][IpcNext]_vars

\* ------------------------------------------------------- ClipboardManager
\* output/clipboard.rs: the arboard handle lives in the static CLIPBOARD;
\* ClipboardManager values come and go. The selection is the system
\* clipboard as any application sees it; while this process owns it, its
\* content is served by the handle. Other applications may take it.

\* ClipboardManager::instance(): get_or_init, which keeps the first
\* result, Ok or Err, for the life of the process
instance(ok) ==
    IF CLIPBOARD = "unset" THEN (IF ok THEN "Ok" ELSE "Err") ELSE CLIPBOARD

clipFrame ==
    <<sessionVars, configVars, vadUnitVars, vad_state, current_time_ms,
      pre_speech, speech, shmVars, recVars, ipcVars, auxVars>>

ClipInit ==
    /\ SessionIdle /\ DefaultConfig /\ VadUnitIdle /\ ShmIdle /\ NoCall
    /\ vad_state = VadIdle /\ current_time_ms = 0
    /\ pre_speech = 0 /\ speech = 0
    /\ RecIdle /\ IpcIdle /\ AuxIdle
    /\ CLIPBOARD = "unset"
    /\ handle_alive = FALSE
    /\ managers = {}
    /\ next_manager = 1
    /\ selection \in {NoSelection} \cup
                     { [owner |-> "other", text |-> x] : x \in ClipTexts }
    /\ written = NothingWritten

\* ClipboardManager::new()
ManagerNew(ok) ==
    /\ calls < MaxClipCalls
    /\ CLIPBOARD' = instance(ok)
    /\ handle_alive' = (handle_alive \/ (CLIPBOARD = "unset" /\ ok))
    /\ IF CLIPBOARD' = "Ok"
       THEN /\ managers' = managers \cup {next_manager}
            /\ next_manager' = next_manager + 1
            /\ last_call' = [op |-> "new", ret |-> "Ok",
                             manager |-> next_manager]
       ELSE /\ UNCHANGED <<managers, next_manager>>
            /\ last_call' = [op |-> "new", ret |-> "Err"]
    /\ calls' = calls + 1
    /\ UNCHANGED <<selection, written, clipFrame>>

\* set_text(text) through the manager m; the display server may refuse
SetText(m, txt, ok) ==
    /\ calls < MaxClipCalls
    /\ m \in managers
    /\ IF handle_alive /\ ok
       THEN /\ selection' = [owner |-> "self", text |-> txt]
            /\ written' = [text |-> txt, by |-> m, valid |-> TRUE]
            /\ last_call' = [op |-> "set_text", manager |-> m, ret |-> "Ok"]
       ELSE /\ UNCHANGED <<selection, written>>
            /\ last_call' = [op |-> "set_text", manager |-> m, ret |-> "Err"]
    /\ calls' = calls + 1
    /\ UNCHANGED <<CLIPBOARD, handle_alive, managers, next_manager, clipFrame>>

\* get_text() through the manager m
GetText(m, ok) ==
    /\ calls < MaxClipCalls
    /\ m \in managers
    /\ IF handle_alive /\ ok /\ selection.owner # "none"
       THEN last_call' = [op |-> "get_text", manager |-> m, ret |-> "Ok",
                          value |-> selection.text]
       ELSE last_call' = [op |-> "get_text", manager |-> m, ret |-> "Err"]
    /\ calls' = calls + 1
    /\ UNCHANGED <<CLIPBOARD, handle_alive, managers, next_manager,
                   selection, written, clipFrame>>

\* clear() through the manager m
Clear(m, ok) ==
    /\ calls < MaxClipCalls
    /\ m \in managers
    /\ IF handle_alive /\ ok
       THEN /\ selection' = NoSelection
            /\ written' = [written EXCEPT !.valid = FALSE]
            /\ last_call' = [op |-> "clear", manager |-> m, ret |-> "Ok"]
       ELSE /\ UNCHANGED <<selection, written>>
            /\ last_call' = [op |-> "clear", manager |-> m, ret |-> "Err"]
    /\ calls' = calls + 1
    /\ UNCHANGED <<CLIPBOARD, handle_alive, managers, next_manager, clipFrame>>

\* a manager whose drop takes the handle, and the selection it owns, along
ManagerDrop_handle(m) ==
    /\ m \in managers
    /\ managers' = managers \ {m}
    /\ handle_alive' = FALSE
    /\ selection' = IF selection.owner = "self" THEN NoSelection ELSE selection
    /\ UNCHANGED <<CLIPBOARD, next_manager, written, callVars, clipFrame>>

\* a ClipboardManager goes out of scope: it has no fields and no Drop,
\* and the static is not touched
ManagerDrop(m) ==
    /\ m \in managers
    /\ managers' = managers \ {m}
    /\ UNCHANGED <<CLIPBOARD, handle_alive, next_manager, selection, written,
                   callVars, clipFrame>>

\* another application copies something
ExternalCopy(txt) ==
    /\ selection # [owner |-> "other", text |-> txt]
    /\ selection' = [owner |-> "other", text |-> txt]
    /\ written' = [written EXCEPT !.valid = FALSE]
    /\ UNCHANGED <<CLIPBOARD, handle_alive, managers, next_manager, callVars,
                   clipFrame>>

ClipNext ==
    \/ \E ok \in BOOLEAN : ManagerNew(ok)
    \/ \E m \in 1..MaxClipCalls, txt \in ClipTexts, ok \in BOOLEAN :
            SetText(m, txt, ok)
    \/ \E m \in 1..MaxClipCalls, ok \in BOOLEAN : GetText(m, ok)
    \/ \E m \in 1..MaxClipCalls, ok \in BOOLEAN : Clear(m, ok)
    \/ \E m \in 1..MaxClipCalls : ManagerDrop(m)
    \/ \E txt \in ClipTexts : ExternalCopy(txt)

ClipSpec == ClipInit /\ [][ClipNext]_vars

\* ------------------------------------------------- run_audio_capture loop
\* The chunk loop of one capture session on its own, without cancel and
\* timeout, long enough for a second utterance.
CapInit ==
    /\ SessionIdle /\ DefaultConfig /\ VadUnitIdle /\ ShmIdle /\ NoCall
    /\ ExtIdle
    /\ vad_state = VadIdle /\ current_time_ms = 0
    /\ pre_speech = 0 /\ speech = 0

CapChunk(is_speech, n) ==
    /\ w_pc \in {"none", "loop"}
    /\ chunks < MaxCapChunks
    /\ chunks' = chunks + 1
    /\ capture_chunk(is_speech, n)
    /\ UNCHANGED <<capture_result, audio_len, recording_timed_out>>
    /\ UNCHANGED <<pipelineVars, handlerVars, taskVars, outVars>>
    /\ UNCHANGED unitVars

CapNext == \E is_speech \in BOOLEAN, n \in CapSamples : CapChunk(is_speech, n)

CapSpec == CapInit /\ [][CapNext]_vars

\* ------------------------------------------ SpeechBuffer, sample by sample
\* The same buffer with the samples told apart by a running number, built
\* with small sizes so that the ring wraps and the Vec fills.
MaxSbCalls == 5
SbRates == {2, 4}
SbPadMs == {0, 500, 1000}
SbMaxS == {1, 2}
SbChunk == {1, 3}

\* a ring that turns a sample away when it is full
ring_push_keep_oldest(ring, cap, x) ==
    IF Len(ring) >= cap THEN ring ELSE Append(ring, x)

\* AllocRingBuffer::push: a full ring drops its oldest sample
ring_push(ring, cap, x) ==
    IF Len(ring) >= cap THEN Append(Tail(ring), x) ELSE Append(ring, x)

\* Extend for AllocRingBuffer: push every sample, in order
RECURSIVE ring_extend(_, _, _)
ring_extend(ring, cap, samples) ==
    IF samples = <<>> THEN ring
    ELSE ring_extend(ring_push(ring, cap, Head(samples)), cap, Tail(samples))

\* SpeechBuffer::new
SpeechBuffer_new(sample_rate, pre_speech_duration_ms, max_speech_duration_s) ==
    LET pre == (sample_rate * pre_speech_duration_ms) \div 1000
    IN  [sample_rate |-> sample_rate,
         max_speech_samples |-> sample_rate * max_speech_duration_s,
         pre_capacity |-> IF pre > 1 THEN pre ELSE 1,
         pre_speech |-> <<>>,
         speech |-> <<>>]

\* SpeechBuffer::push_pre_speech
sb_push_pre_speech(b, samples) ==
    [b EXCEPT !.pre_speech = ring_extend(b.pre_speech, b.pre_capacity, samples)]

\* SpeechBuffer::start_speech: clear the Vec, then copy the ring into it
sb_start_speech(b) == [b EXCEPT !.speech = b.pre_speech]

\* what push_speech takes of a slice: up to the room left
sb_accepted(b, samples) ==
    LET remaining == IF b.max_speech_samples > Len(b.speech)
                     THEN b.max_speech_samples - Len(b.speech) ELSE 0
    IN  IF remaining > 0
        THEN SubSeq(samples, 1, Min(Len(samples), remaining))
        ELSE <<>>

\* SpeechBuffer::push_speech
sb_push_speech(b, samples) ==
    [b EXCEPT !.speech = b.speech \o sb_accepted(b, samples)]

\* an end_speech that hands out a copy and keeps the Vec
sb_end_speech_clone(b) == [audio |-> b.speech, buffer |-> b]

\* SpeechBuffer::end_speech: std::mem::take(&mut self.speech)
sb_end_speech(b) == [audio |-> b.speech, buffer |-> [b EXCEPT !.speech = <<>>]]

\* SpeechBuffer::clear
sb_clear(b) == [b EXCEPT !.pre_speech = <<>>, !.speech = <<>>]

sb_has_speech(b) == b.speech # <<>>
sb_speech_len(b) == Len(b.speech)

\* the next n samples
NewSamples(n) == [i \in 1..n |-> buffer_log.next + i - 1]

sbFrame ==
    <<sessionVars, configVars, vadUnitVars, vad_state, current_time_ms,
      pre_speech, speech, shmVars, recVars, ipcVars, clipVars, waitVars,
      segVars>>

SbInit ==
    /\ SessionIdle /\ DefaultConfig /\ VadUnitIdle /\ ShmIdle /\ NoCall
    /\ vad_state = VadIdle /\ current_time_ms = 0
    /\ pre_speech = 0 /\ speech = 0
    /\ RecIdle /\ IpcIdle /\ ClipIdle /\ WaitIdle /\ SegIdle
    /\ \E r \in SbRates, ms \in SbPadMs, s \in SbMaxS :
         /\ buffer = SpeechBuffer_new(r, ms, s)
         /\ buffer_log = [NoBufferLog EXCEPT !.pre_speech_duration_ms = ms]

SbPushPreSpeech(n) ==
    /\ calls < MaxSbCalls
    /\ buffer' = sb_push_pre_speech(buffer, NewSamples(n))
    /\ buffer_log' = [buffer_log EXCEPT !.pre = @ \o NewSamples(n),
                                        !.next = @ + n]
    /\ last_call' = [op |-> "push_pre_speech", n |-> n]
    /\ calls' = calls + 1
    /\ UNCHANGED sbFrame

SbStartSpeech ==
    /\ calls < MaxSbCalls
    /\ buffer' = sb_start_speech(buffer)
    /\ buffer_log' = [buffer_log EXCEPT !.start = buffer.pre_speech,
                                        !.started = TRUE,
                                        !.pushed = <<>>]
    /\ last_call' = [op |-> "start_speech", before |-> buffer]
    /\ calls' = calls + 1
    /\ UNCHANGED sbFrame

SbPushSpeech(n) ==
    /\ calls < MaxSbCalls
    /\ buffer' = sb_push_speech(buffer, NewSamples(n))
    /\ buffer_log' =
         [buffer_log EXCEPT !.pushed = @ \o sb_accepted(buffer, NewSamples(n)),
                            !.next = @ + n]
    /\ last_call' = [op |-> "push_speech", n |-> n]
    /\ calls' = calls + 1
    /\ UNCHANGED sbFrame

SbEndSpeech ==
    /\ calls < MaxSbCalls
    /\ buffer' = sb_end_speech(buffer).buffer
    /\ buffer_log' = [buffer_log EXCEPT !.start = <<>>, !.started = FALSE,
                                        !.pushed = <<>>]
    /\ last_call' = [op |-> "end_speech",
                     audio |-> sb_end_speech(buffer).audio,
                     started |-> buffer_log.started,
                     start |-> buffer_log.start,
                     pushed |-> buffer_log.pushed,
                     again |-> last_call.op = "end_speech",
                     before |-> buffer]
    /\ calls' = calls + 1
    /\ UNCHANGED sbFrame

SbClear ==
    /\ calls < MaxSbCalls
    /\ buffer' = sb_clear(buffer)
    /\ buffer_log' = [buffer_log EXCEPT !.pre = <<>>, !.start = <<>>,
                                        !.started = FALSE, !.pushed = <<>>]
    /\ last_call' = [op |-> "clear"]
    /\ calls' = calls + 1
    /\ UNCHANGED sbFrame

SbNext ==
    \/ \E n \in SbChunk : SbPushPreSpeech(n)
    \/ SbStartSpeech
    \/ \E n \in SbChunk : SbPushSpeech(n)
    \/ SbEndSpeech
    \/ SbClear

SbSpec == SbInit /\ [][SbNext]_vars

\* --------------------------------------------------------- wait_for_data
\* AudioRecorder::wait_for_data and ZeroCopyAudioRecorder::wait_for_data:
\* the future runs on the tokio runtime, the callback on the audio thread,
\* start / read_chunk / stop on the thread that owns the recorder.
MaxWaitCalls == 5
Recorders == {"AudioRecorder", "ZeroCopyAudioRecorder"}
WaitChunk == {1, 2}
WaitCapacities == {3}

WaiterPending == waiter.pc \in {"check", "check_pos", "await", "suspended"}

waitFrame ==
    <<sessionVars, configVars, vadUnitVars, vad_state, current_time_ms,
      pre_speech, speech, capacity, mem, copied_log, next_sample, reader,
      requested_sample_rate, channels, device_sample_rate, rb_capacity,
      producer, pop_loop, pushed, accepted, popped,
      ipcVars, clipVars, sbVars, segVars, recorder>>

WaitInit ==
    /\ SessionIdle /\ DefaultConfig /\ VadUnitIdle /\ NoCall
    /\ vad_state = VadIdle /\ current_time_ms = 0
    /\ pre_speech = 0 /\ speech = 0
    /\ RecIdle /\ IpcIdle /\ ClipIdle /\ SbIdle /\ SegIdle
    /\ recorder \in Recorders
    /\ capacity \in WaitCapacities
    /\ write_pos = 0 /\ is_finalized = FALSE
    /\ is_recording = FALSE /\ stream = "None"
    /\ callback = CallbackIdle
    /\ mem = <<>> /\ copied_log = <<>> /\ next_sample = 1
    /\ reader = ReaderIdle
    /\ notify = FALSE
    /\ waiter = NoWaiter

\* start(): refused while recording; the ring is replaced (AudioRecorder)
\* or the shared buffer reset (ZeroCopyAudioRecorder), the stream plays
WaitStart ==
    /\ calls < MaxWaitCalls
    /\ callback.pc = "idle"
    /\ IF is_recording
       THEN /\ last_call' = [op |-> "start", ret |-> "Err"]
            /\ UNCHANGED <<stream, is_recording, consumer, rb, write_pos,
                           is_finalized>>
       ELSE /\ stream' = "Some"
            /\ is_recording' = TRUE
            /\ IF recorder = "AudioRecorder"
               THEN /\ consumer' = "Some" /\ rb' = <<>>
                    /\ UNCHANGED <<write_pos, is_finalized>>
               ELSE /\ write_pos' = 0 /\ is_finalized' = FALSE
                    /\ UNCHANGED <<consumer, rb>>
            /\ last_call' = [op |-> "start", ret |-> "Ok"]
    /\ calls' = calls + 1
    /\ UNCHANGED <<callback, notify, waiter, waitFrame>>

\* the input callback up to its notify_one: push_slice, or write_samples,
\* after which only a callback that wrote something notifies
WaitCallbackData(len) ==
    /\ calls < MaxWaitCalls
    /\ stream = "Some"
    /\ callback.pc = "idle"
    /\ IF recorder = "AudioRecorder"
       THEN /\ rb' = rb \o [i \in 1..len |-> 0]
            /\ callback' = [pc |-> "notify"]
            /\ UNCHANGED write_pos
       ELSE LET samples_written == samples_to_write(is_finalized, write_pos,
                                                    capacity, len)
            IN  /\ write_pos' = write_pos + samples_written
                /\ callback' = IF samples_written > 0 THEN [pc |-> "notify"]
                                                      ELSE CallbackIdle
                /\ UNCHANGED rb
    /\ calls' = calls + 1
    /\ UNCHANGED <<stream, is_recording, consumer, is_finalized, notify,
                   waiter, last_call, waitFrame>>

\* Notify::notify_one: a waiting task is woken, otherwise a permit is kept
notify_one ==
    IF waiter.pc = "suspended"
    THEN waiter' = [waiter EXCEPT !.pc = "check"] /\ UNCHANGED notify
    ELSE notify' = TRUE /\ UNCHANGED waiter

WaitCallbackNotify ==
    /\ callback.pc = "notify"
    /\ notify_one
    /\ callback' = CallbackIdle
    /\ UNCHANGED <<stream, is_recording, consumer, rb, write_pos,
                   is_finalized, last_call, calls, waitFrame>>

\* AudioRecorder::read_chunk: everything in the ring is popped
WaitReadChunk ==
    /\ calls < MaxWaitCalls
    /\ recorder = "AudioRecorder"
    /\ callback.pc = "idle"
    /\ rb' = IF consumer = "Some" THEN <<>> ELSE rb
    /\ last_call' = [op |-> "read_chunk"]
    /\ calls' = calls + 1
    /\ UNCHANGED <<stream, is_recording, consumer, write_pos, is_finalized,
                   callback, notify, waiter, waitFrame>>

\* wait_for_data(): the future is handed to the runtime
WaitForData ==
    /\ calls < MaxWaitCalls
    /\ ~WaiterPending
    /\ waiter' = [pc |-> "check"]
    /\ last_call' = [op |-> "wait_for_data"]
    /\ calls' = calls + 1
    /\ UNCHANGED <<stream, is_recording, consumer, rb, write_pos,
                   is_finalized, callback, notify, waitFrame>>

\* the head of the future's loop: under the consumer mutex for the ring,
\* the load of is_finalized for the shared buffer
WaiterCheck ==
    /\ waiter.pc = "check"
    /\ waiter' =
         [waiter EXCEPT !.pc =
            IF recorder = "AudioRecorder"
            THEN IF consumer = "Some"
                 THEN IF Len(rb) > 0 THEN "Ok" ELSE "await"
                 ELSE "Err"
            ELSE IF is_finalized THEN "Err" ELSE "check_pos"]
    /\ UNCHANGED <<stream, is_recording, consumer, rb, write_pos,
                   is_finalized, callback, notify, last_call, calls,
                   waitFrame>>

\* ZeroCopyAudioRecorder: the load of write_pos
WaiterCheckPos ==
    /\ waiter.pc = "check_pos"
    /\ waiter' = [waiter EXCEPT !.pc = IF write_pos > 0 THEN "Ok" ELSE "await"]
    /\ UNCHANGED <<stream, is_recording, consumer, rb, write_pos,
                   is_finalized, callback, notify, last_call, calls,
                   waitFrame>>

\* notify.notified().await: a stored permit is taken and the loop goes
\* round, otherwise the task is parked until a notify_one
WaiterAwait ==
    /\ waiter.pc = "await"
    /\ IF notify
       THEN notify' = FALSE /\ waiter' = [waiter EXCEPT !.pc = "check"]
       ELSE waiter' = [waiter EXCEPT !.pc = "suspended"] /\ UNCHANGED notify
    /\ UNCHANGED <<stream, is_recording, consumer, rb, write_pos,
                   is_finalized, callback, last_call, calls, waitFrame>>

\* stop(): the stream is dropped (which waits for a callback in progress),
\* the consumer taken or the buffer finalized
WaitStop ==
    /\ calls < MaxWaitCalls
    /\ callback.pc = "idle"
    /\ IF ~is_recording
       THEN /\ last_call' = [op |-> "stop", ret |-> "Err"]
            /\ UNCHANGED <<stream, is_recording, consumer, rb,
                           is_finalized, notify, waiter>>
       ELSE /\ stream' = "None"
            /\ is_recording' = FALSE
            /\ IF recorder = "AudioRecorder"
               THEN consumer' = "None" /\ rb' = <<>> /\ UNCHANGED is_finalized
               ELSE is_finalized' = TRUE /\ UNCHANGED <<consumer, rb>>
            /\ UNCHANGED <<notify, waiter>>
            /\ last_call' = [op |-> "stop", ret |-> "Ok",
                             pending |-> WaiterPending]
    /\ calls' = calls + 1
    /\ UNCHANGED <<write_pos, callback, waitFrame>>

WaitNext ==
    \/ WaitStart
    \/ \E len \in WaitChunk : WaitCallbackData(len)
    \/ WaitCallbackNotify
    \/ WaitReadChunk
    \/ WaitForData
    \/ WaiterCheck
    \/ WaiterCheckPos
    \/ WaiterAwait
    \/ WaitStop

WaitSpec == WaitInit /\ [][WaitNext]_vars

\* ------------------------------ run_audio_capture loop, sample by sample
\* The chunk loop again, with the SpeechBuffer kept sample by sample next
\* to the lengths.  One element of a sequence stands for a block of
\* consecutive samples as long as the shortest chunk; every chunk and
\* both sizes of the buffer are whole numbers of blocks.
MaxSeqChunks == 5

CaptureBlock == CHOOSE n \in ChunkSamples : \A m \in ChunkSamples : n <= m

\* lines 413-472 on the contents of the buffer
capture_chunk_samples(is_speech, samples) ==
    LET chunk_duration_ms ==
            (Len(samples) * CaptureBlock * 1000) \div SAMPLE_RATE
        b1 == sb_push_pre_speech(buffer, samples)
        event == process(vad_state, current_time_ms, is_speech,
                         chunk_duration_ms).event
        b2 == IF event = "SpeechStarted" /\ ~speech_ever_detected
              THEN sb_start_speech(b1) ELSE b1
        ever1 == speech_ever_detected \/ event = "SpeechStarted"
        speaking1 == CASE event = "SpeechStarted" -> TRUE
                       [] event = "SpeechEnded" -> FALSE
                       [] OTHER -> currently_speaking
        capturing1 == event # "SpeechEnded" /\
            is_capturing(process(vad_state, current_time_ms, is_speech,
                                 chunk_duration_ms).state)
    IN  IF event # "MaxDurationReached" /\ ever1 /\ (capturing1 \/ speaking1)
        THEN sb_push_speech(b2, samples)
        ELSE b2

capSeqFrame ==
    <<pipelineVars, handlerVars, taskVars, outVars, capture_result, audio_len,
      recording_timed_out, configVars, vadUnitVars, shmVars, recVars,
      ipcVars, clipVars, waitVars, segVars>>

CapSeqInit ==
    /\ SessionIdle /\ DefaultConfig /\ VadUnitIdle /\ ShmIdle /\ NoCall
    /\ RecIdle /\ IpcIdle /\ ClipIdle /\ WaitIdle /\ SegIdle
    /\ vad_state = VadIdle /\ current_time_ms = 0
    /\ pre_speech = 0 /\ speech = 0
    /\ buffer = SpeechBuffer_new(SAMPLE_RATE \div CaptureBlock, speech_pad_ms,
                                 max_recording_duration_s)
    /\ buffer_log = NoBufferLog

\* one received chunk
CapSeqChunk(is_speech, n) ==
    /\ w_pc \in {"none", "loop"}
    /\ chunks < MaxSeqChunks
    /\ chunks' = chunks + 1
    /\ capture_chunk(is_speech, n)
    /\ buffer' = capture_chunk_samples(is_speech, NewSamples(n \div CaptureBlock))
    /\ buffer_log' = [buffer_log EXCEPT !.next = @ + (n \div CaptureBlock)]
    /\ last_call' = [op |-> "chunk", first |-> buffer_log.next,
                     len |-> n \div CaptureBlock,
                     event |-> process(vad_state, current_time_ms, is_speech,
                                       (n * 1000) \div SAMPLE_RATE).event]
    /\ UNCHANGED <<calls, capSeqFrame>>

\* lines 374-394 and 476-497: the worker sees the cancel at a loop head,
\* or has left the loop, and returns what was accumulated
CapSeqReturn ==
    /\ w_pc \in {"loop", "finalize"}
    /\ w_pc' = "returned"
    /\ IF sb_has_speech(buffer)
       THEN /\ last_call' = [op |-> "returned", result |-> "Success",
                             audio |-> sb_end_speech(buffer).audio]
            /\ buffer' = sb_end_speech(buffer).buffer
            /\ speech' = end_speech(speech).speech
       ELSE /\ last_call' = [op |-> "returned",
                             result |-> IF w_pc = "loop" THEN "Cancelled"
                                                         ELSE "NoSpeech",
                             audio |-> <<>>]
            /\ UNCHANGED <<buffer, speech>>
    /\ UNCHANGED <<vad_state, current_time_ms, pre_speech,
                   speech_ever_detected, currently_speaking, chunks>>
    /\ UNCHANGED <<buffer_log, calls, capSeqFrame>>

CapSeqNext ==
    \/ \E is_speech \in BOOLEAN, n \in ChunkSamples : CapSeqChunk(is_speech, n)
    \/ CapSeqReturn

CapSeqSpec == CapSeqInit /\ [][CapSeqNext]_vars

\* ------------------------------------- a session with a short speech cap
\* The whole pipeline built by Pipeline::new with a PipelineConfig whose
\* max_recording_duration_s is small, and with chunks long enough for the
\* accumulated speech to reach the cap within a few of them.
ShortDurations == {1}

OverflowInit ==
    /\ SessionIdle /\ VadUnitIdle /\ ShmIdle /\ NoCall /\ ExtIdle
    /\ vad_state = VadIdle /\ current_time_ms = 0
    /\ pre_speech = 0 /\ speech = 0
    /\ speech_pad_ms = default_speech_pad_ms
    /\ max_recording_duration_s \in ShortDurations

OverflowNext ==
    \/ Next
    \/ \E is_speech \in BOOLEAN, n \in CapSamples : CaptureChunk(is_speech, n)

OverflowSpec == OverflowInit /\ [][OverflowNext]_vars

\* ------------------------------------------------------- detect_segments
\* VoiceActivityDetector::detect_segments of v2m_engine (the backend and the
\* daemon carry the same body), one loop turn at a time; what the WebRTC
\* detector says of a frame is the environment's choice.
MaxSegFrames == 5
SegRates == {8000, 16000}
SegFrameMs == {10, 15, 20, 30}
SegMinSpeech == {1, 2, 3}
SegMinSilence == {1, 2}
SegTail == {0, 7}

\* line 327
frame_samples_of(samples_per_sec, frame_ms) ==
    (samples_per_sec * frame_ms) \div 1000

\* line 330
valid_frame_ms(frame_ms) == frame_ms \in {10, 20, 30}

\* line 366
speech_start_at(frame_idx, min_speech_frames, frame_samples) ==
    (frame_idx - min_speech_frames + 1) * frame_samples

\* line 374
speech_end_at(frame_idx, min_silence_frames, frame_samples) ==
    (frame_idx - min_silence_frames) * frame_samples

\* lines 359-384: the body of the loop for the frame s.frame_idx
detect_frame(s, is_voice) ==
    IF is_voice
    THEN LET count == s.speech_frame_count + 1
             starts == ~s.in_speech /\ count >= s.min_speech_frames
         IN  [s EXCEPT !.silence_frame_count = 0,
                       !.speech_frame_count = count,
                       !.in_speech = IF starts THEN TRUE ELSE @,
                       !.speech_start =
                           IF starts
                           THEN speech_start_at(s.frame_idx,
                                                s.min_speech_frames,
                                                s.frame_samples)
                           ELSE @]
    ELSE IF s.in_speech
    THEN LET silent == s.silence_frame_count + 1
             speech_end == speech_end_at(s.frame_idx, s.min_silence_frames,
                                         s.frame_samples)
         IN  IF silent >= s.min_silence_frames
             THEN [s EXCEPT !.silence_frame_count = silent,
                            !.segments =
                                IF speech_end > s.speech_start
                                THEN Append(@, <<s.speech_start, speech_end>>)
                                ELSE @,
                            !.in_speech = FALSE,
                            !.speech_frame_count = 0]
             ELSE [s EXCEPT !.silence_frame_count = silent]
    ELSE [s EXCEPT !.speech_frame_count = 0]

segFrame ==
    <<sessionVars, configVars, vadUnitVars, vad_state, current_time_ms,
      pre_speech, speech, shmVars, recVars, ipcVars, clipVars, sbVars,
      waitVars, callVars>>

SegInit ==
    /\ SessionIdle /\ DefaultConfig /\ VadUnitIdle /\ ShmIdle /\ NoCall
    /\ vad_state = VadIdle /\ current_time_ms = 0
    /\ pre_speech = 0 /\ speech = 0
    /\ RecIdle /\ IpcIdle /\ ClipIdle /\ SbIdle /\ WaitIdle
    /\ seg = NoSeg

\* lines 313-350: the call, its arguments checked, its locals set up
SegCall(samples_per_sec, frame_ms, min_speech_frames, min_silence_frames, len) ==
    /\ seg.pc = "none"
    /\ LET frame_samples == frame_samples_of(samples_per_sec, frame_ms)
       IN  seg' = [pc |-> IF valid_frame_ms(frame_ms) THEN "loop" ELSE "done",
                   ret |-> IF valid_frame_ms(frame_ms) THEN "none" ELSE "Err",
                   frame_ms |-> frame_ms,
                   min_speech_frames |-> min_speech_frames,
                   min_silence_frames |-> min_silence_frames,
                   audio_len |-> len,
                   frame_samples |-> frame_samples,
                   total_frames |-> len \div frame_samples,
                   frame_idx |-> 0,
                   in_speech |-> FALSE,
                   speech_start |-> 0,
                   speech_frame_count |-> 0,
                   silence_frame_count |-> 0,
                   segments |-> <<>>,
                   voice |-> <<>>]
    /\ UNCHANGED segFrame

\* lines 352-385: one turn of the loop
SegFrame(is_voice) ==
    /\ seg.pc = "loop"
    /\ seg.frame_idx < seg.total_frames
    /\ seg' = [detect_frame(seg, is_voice) EXCEPT
                 !.frame_idx = @ + 1,
                 !.voice = Append(@, is_voice)]
    /\ UNCHANGED segFrame

\* lines 387-393: the region still open is closed at the end of the audio
SegReturn ==
    /\ seg.pc = "loop"
    /\ seg.frame_idx = seg.total_frames
    /\ seg' = [seg EXCEPT
                 !.pc = "done",
                 !.ret = "Ok",
                 !.segments = IF seg.in_speech
                              THEN Append(@, <<seg.speech_start,
                                               seg.audio_len>>)
                              ELSE @]
    /\ UNCHANGED segFrame

SegNext ==
    \/ \E samples_per_sec \in SegRates, frame_ms \in SegFrameMs,
          min_speech_frames \in SegMinSpeech,
          min_silence_frames \in SegMinSilence,
          n \in 0..MaxSegFrames, tail \in SegTail :
            SegCall(samples_per_sec, frame_ms, min_speech_frames,
                    min_silence_frames,
                    n * frame_samples_of(samples_per_sec, frame_ms) + tail)
    \/ \E is_voice \in BOOLEAN : SegFrame(is_voice)
    \/ SegReturn

SegSpec == SegInit /\ [][SegNext]_vars

\* ================================================================ claims
\* index in events of the latest StateChanged{Recording}, 0 if none
RECURSIVE LastRecordingAt(_)
LastRecordingAt(i) ==
    IF i = 0 THEN 0
    ELSE IF events[i] = StateChanged("Recording") THEN i
    ELSE LastRecordingAt(i - 1)

\* the events emitted since the latest session started
SessionEvents ==
    LET k == LastRecordingAt(Len(events))
    IN  IF k = 0 THEN <<>> ELSE SubSeq(events, k, Len(events))

Emitted(evs, ev) == \E i \in 1..Len(evs) : evs[i] = ev

\* the session task ran to its end, its Error event included
TaskFinished == task_pc = "done" /\ errors_pending = 0

\* C1: when the transcriber fails (or is unavailable) after audio was
\* captured, the finished session has emitted Error, released is_running
\* and left RecordingState at Idle.
C1_TranscriberErrorFinalized ==
    (TaskFinished /\ result \in {"Err_transcribe", "Err_no_transcriber"})
        => (Emitted(SessionEvents, EvError) /\ ~is_running /\ state = "Idle")

\* C2: when the capture worker fails, the finished session has released
\* is_running, emitted Error and left RecordingState at Idle.
C2_CaptureErrorAborted ==
    (TaskFinished /\ result = "Err_capture")
        => (~is_running /\ Emitted(SessionEvents, EvError) /\ state = "Idle")

\* run_recording_pipeline (capture worker or transcription) is under way
SessionActive ==
    task_pc \in {"begin", "await_capture", "set_processing", "transcribe",
                 "clipboard", "set_idle"}

Count(evs, ev) == Cardinality({i \in 1..Len(evs) : evs[i] = ev})

\* C3: at most one session is active at any time: is_running is claimed by
\* compare-and-set from false to true, it is true for as long as a session
\* task has not released it, and a session task is spawned only when no
\* session task and no capture worker is active.
C3_AtMostOneSession ==
    /\ []((SessionActive \/ task_pc = "release" \/ w_pc # "none") => is_running)
    /\ [][/\ (h_pc = "cas" /\ h_pc' = "ensure_model") => (~is_running /\ is_running')
          /\ (h_pc = "cas" /\ h_pc' = "idle") => (is_running /\ task_pc' = task_pc)
          /\ (h_pc = "spawn" /\ h_pc' = "idle") =>
                (is_running /\ ~SessionActive /\ task_pc # "release" /\ w_pc = "none")
         ]_vars

\* a toggle is being dispatched while the second session's worker captures
C3_Witness ==
    /\ Count(events, StateChanged("Recording")) = 2
    /\ SessionActive /\ w_pc = "recv"
    /\ h_pc = "match" /\ was_running

\* the step of the handler that dispatches on the pair it read
MatchStep == h_pc = "match" /\ h_pc' # "match"

Refused ==
    /\ h_pc' = "idle" /\ toggle_ret' = "Ok_false"
    /\ is_running' = is_running /\ cancel_flag' = cancel_flag /\ state' = state
    /\ task_pc' = task_pc /\ events' = events

\* C4: a toggle that passed the debounce acts on the pair (is_running,
\* state) it read as the decision table says: (false, Idle) enters
\* start_recording; (true, Recording) sets cancel_flag; (any, Processing)
\* and (true, Idle) are refused and change nothing; (false, Recording)
\* forces the state to Idle and does not start.  The handler returns true
\* only out of the start arm, with the session task spawned.
C4_DecisionTable ==
    [][/\ MatchStep =>
            /\ (~was_running /\ current_state = "Idle") =>
                  /\ h_pc' = "cas" /\ toggle_ret' = "pending"
                  /\ is_running' = is_running /\ cancel_flag' = cancel_flag
                  /\ state' = state
            /\ (was_running /\ current_state = "Recording") =>
                  /\ cancel_flag' = TRUE
                  /\ h_pc' = "idle" /\ toggle_ret' = "Ok_false"
                  /\ is_running' = is_running /\ state' = state
                  /\ task_pc' = task_pc
            /\ current_state = "Processing" => Refused
            /\ (was_running /\ current_state = "Idle") => Refused
            /\ (~was_running /\ current_state = "Recording") =>
                  /\ state' = "Idle"
                  /\ h_pc' = "idle" /\ toggle_ret' = "Ok_false"
                  /\ is_running' = is_running /\ cancel_flag' = cancel_flag
                  /\ task_pc' = task_pc
       /\ (h_pc # "cas" /\ h_pc' = "cas") =>
            (h_pc = "match" /\ ~was_running /\ current_state = "Idle")
       /\ (toggle_ret # "Ok_true" /\ toggle_ret' = "Ok_true") =>
            /\ h_pc = "spawn" /\ task_pc' = "begin"
            /\ is_running /\ state = "Recording"
      ]_vars

\* the (false, Recording) arm has acted after a failed capture
C4_Witness ==
    /\ h_pc = "idle" /\ toggle_ret = "Ok_false"
    /\ result = "Err_capture" /\ task_pc = "done"
    /\ state = "Idle"
    /\ events # <<>> /\ events[Len(events)] = StateChanged("Idle")

\* toggle_recording returned at the debounce / went on past it
ToggleIgnoredStep ==
    h_pc = "idle" /\ h_pc' = "idle" /\ toggle_ret # "Ok_false" /\ toggle_ret' = "Ok_false"
ToggleAcceptedStep == h_pc = "idle" /\ h_pc' = "load_running"

\* C5: a toggle is ignored by the debounce only when a toggle was accepted
\* less than 300 ms before it, and then it returns false and changes
\* nothing (last_toggle_time included); a toggle is accepted when it is the
\* first one after construction or comes 300 ms or more after the last
\* accepted one.
C5_Debounce ==
    [][/\ ToggleIgnoredStep =>
            /\ toggles > 0
            /\ last_toggle_elapsed < DEBOUNCE_MS
            /\ UNCHANGED <<pipelineVars, taskVars, workerVars, outVars, toggles>>
       /\ ToggleAcceptedStep =>
            /\ (toggles = 0 \/ last_toggle_elapsed >= DEBOUNCE_MS)
            /\ last_toggle_elapsed' = 0
      ]_vars

LinearTransitions ==
    {<<"Idle", "Recording">>, <<"Recording", "Processing">>,
     <<"Processing", "Idle">>, <<"Recording", "Idle">>}

\* C6 as stated: every change of RecordingState is Idle->Recording,
\* Recording->Processing, Processing->Idle or Recording->Idle, and
\* Recording->Idle happens only when cancellation was requested.
C6_RecordingToIdleOnlyOnCancel ==
    [][state' # state =>
         /\ <<state, state'>> \in LinearTransitions
         /\ (state = "Recording" /\ state' = "Idle") => cancel_flag
      ]_vars

\* C6 amended: every change of RecordingState is one of the four
\* transitions, and Recording->Idle is made only by the session task when
\* the capture worker returned Cancelled (cancel_flag is then set) or
\* NoSpeech, or by a toggle that read Recording with is_running false.
C6_Transitions ==
    [][state' # state =>
         /\ <<state, state'>> \in LinearTransitions
         /\ (state = "Recording" /\ state' = "Idle") =>
              \/ /\ task_pc = "await_capture"
                 /\ capture_result \in {"Cancelled", "NoSpeech"}
                 /\ capture_result = "Cancelled" => cancel_flag
              \/ /\ h_pc = "match" /\ ~was_running /\ current_state = "Recording"
                 /\ ~is_running /\ ~SessionActive
      ]_vars

\* the session went from Recording to Idle on NoSpeech, nobody cancelled
C6_Witness ==
    /\ task_pc = "release" /\ capture_result = "NoSpeech"
    /\ state = "Idle" /\ ~cancel_flag

\* C7: is_running is true before RecordingState becomes Recording, and it
\* is false again once a session has ended in any way (the session task
\* finished or terminated abnormally, or the model failed to load) and the
\* toggle handler is not in the middle of a start.
C7_IsRunningReleased ==
    /\ [][(state # "Recording" /\ state' = "Recording") => is_running]_vars
    /\ []((h_pc = "idle" /\ task_pc \in {"none", "done", "panicked"}) => ~is_running)

\* C8: a toggle that finds RecordingState Processing sets no cancel_flag
\* and changes neither the state nor the session; the transcription step
\* has no cancelled exit and ends in completion or error.
C8_NoCancelDuringProcessing ==
    [][/\ (MatchStep /\ current_state = "Processing") =>
            /\ cancel_flag' = cancel_flag /\ state' = state
            /\ is_running' = is_running /\ toggle_ret' = "Ok_false"
            /\ UNCHANGED <<taskVars, workerVars, outVars>>
       /\ (task_pc = "transcribe" /\ task_pc' # "transcribe") =>
            /\ state = "Processing"
            /\ \/ task_pc' = "clipboard" /\ text' \in Transcripts
               \/ task_pc' = "release" /\ IsErr(result')
      ]_vars

\* the second accepted toggle was refused while the transcription is pending
C8_Witness ==
    /\ toggles = 2 /\ h_pc = "idle" /\ toggle_ret = "Ok_false"
    /\ state = "Processing" /\ task_pc = "transcribe" /\ ~cancel_flag

C9_WitnessCancelled ==
    task_pc = "release" /\ capture_result = "Cancelled" /\ state = "Idle"

\* C10: after cancel_recording() during Recording the system eventually
\* reaches RecordingState Idle with is_running false.
C10_CancelReachesIdle ==
    (cancel_flag /\ state = "Recording" /\ is_running)
        ~> (state = "Idle" /\ ~is_running)

\* the events of the latest session; the Error event a task emits after it
\* has released is_running may arrive late, inside the next session
NotError(ev) == ev # EvError
OwnEvents == SelectSeq(SessionEvents, NotError)

SuccessOrder ==
    <<StateChanged("Recording"), EvSpeechStarted, EvSpeechEnded,
      StateChanged("Processing"), EvTranscriptionComplete,
      EvCopiedToClipboard, StateChanged("Idle")>>

\* the session task is about to return Ok after a capture that ended as `r`
SessionReturnsOk(r) ==
    task_pc = "release" /\ result = "Ok" /\ capture_result = r

C12_NoSpeechEvents ==
    SessionReturnsOk("Cancelled") =>
        OwnEvents = <<StateChanged("Recording"), StateChanged("Idle")>>

\* C13: when the transcript is empty the session has emitted neither
\* TranscriptionComplete nor CopiedToClipboard and the clipboard step
\* writes nothing; when it is not empty and CopiedToClipboard is emitted,
\* the clipboard holds the text and TranscriptionComplete came before.
C13_EmptyTextCleanup ==
    [][(task_pc = "clipboard" /\ task_pc' # "clipboard") =>
          IF text = ""
          THEN /\ clipboard' = clipboard /\ events' = events
               /\ ~Emitted(SessionEvents, EvTranscriptionComplete)
               /\ ~Emitted(SessionEvents, EvCopiedToClipboard)
          ELSE (events' = Append(events, EvCopiedToClipboard)) =>
                  /\ clipboard' = text
                  /\ events[Len(events)] = EvTranscriptionComplete
      ]_vars

\* ------------------------------------------------ VadStateMachine claims
IsSegmentEvent(ev) == ev \in {"SpeechStarted", "SpeechEnded"}
SegmentEvents == SelectSeq(vad_log, IsSegmentEvent)

Alternate(evs) ==
    \A i \in 1..Len(evs) :
        evs[i] = IF i % 2 = 1 THEN "SpeechStarted" ELSE "SpeechEnded"

\* the step is a call of process
ProcessStep == calls' = calls + 1 /\ last_call'.op = "process"

\* C14 as stated: over any sequence of process, force_end and reset calls,
\* SpeechStarted and SpeechEnded alternate starting with SpeechStarted, and
\* is_capturing() is true exactly between a SpeechStarted and the
\* following SpeechEnded.
C14_Alternation ==
    /\ Alternate(SegmentEvents)
    /\ is_capturing(vad_state) <=> (Len(SegmentEvents) % 2 = 1)

\* C14 amended: the same, over any sequence of process calls and of
\* force_end and reset calls made while is_capturing() is false.
C14_AlternationUninterrupted ==
    ~vad_interrupted =>
        /\ Alternate(SegmentEvents)
        /\ is_capturing(vad_state) <=> (Len(SegmentEvents) % 2 = 1)

\* a second segment has started after the first one ended
C14_Witness ==
    /\ ~vad_interrupted
    /\ SegmentEvents = <<"SpeechStarted", "SpeechEnded", "SpeechStarted">>
    /\ is_capturing(vad_state)

C16_FalsePositiveRejected ==
    /\ [](speech_run_ms \in 1..(min_speech_duration_ms - 1) =>
            (vad_state.tag = "SpeechPending" /\ last_call.event = "None"))
    /\ [][(/\ speech_run_ms \in 1..(min_speech_duration_ms - 1)
           /\ ProcessStep /\ ~last_call'.is_speech) =>
              /\ vad_state' = VadIdle
              /\ last_call'.event = "None"
              /\ vad_log' = vad_log
         ]_vars

\* a burst of two chunks, 100 ms in all, was rejected by the silence
C16_Witness ==
    /\ last_call.op = "process" /\ ~last_call.is_speech
    /\ last_call.pre.tag = "SpeechPending"
    /\ last_call.pre_clock = last_call.pre.started_at_ms + 50
    /\ last_call.pre.started_at_ms = 50
    /\ vad_state = VadIdle /\ vad_log = <<>>

\* C17: in SilencePending the time since the silence began is below
\* min_silence_ms; a silence chunk that keeps it below leaves the state
\* as it is, and a speech chunk returns the machine to SpeechActive, both
\* without SpeechEnded.
C17_InterruptedSilence ==
    /\ [](vad_state.tag = "SilencePending" =>
            /\ current_time_ms - vad_state.started_at_ms < min_silence_duration_ms
            /\ SegmentEvents # <<>>
            /\ SegmentEvents[Len(SegmentEvents)] = "SpeechStarted")
    /\ [][(ProcessStep /\ vad_state.tag = "SilencePending") =>
            /\ last_call'.is_speech =>
                  /\ vad_state' = VadSpeechActive
                  /\ last_call'.event = "None" /\ vad_log' = vad_log
            /\ (/\ ~last_call'.is_speech
                /\ current_time_ms' - vad_state.started_at_ms
                      < min_silence_duration_ms) =>
                  /\ vad_state' = vad_state
                  /\ last_call'.event = "None" /\ vad_log' = vad_log
         ]_vars

\* 750 ms of silence in two chunks, then speech again
C17_Witness ==
    /\ last_call.op = "process" /\ last_call.is_speech
    /\ last_call.pre.tag = "SilencePending"
    /\ last_call.pre_clock - last_call.pre.started_at_ms = 400
    /\ vad_state = VadSpeechActive /\ vad_log = <<"SpeechStarted">>

\* ---------------------------------------------------- SpeechBuffer claims
\* C18: after any sequence of push_pre_speech, start_speech, push_speech
\* and end_speech calls the accumulated speech never exceeds
\* max_speech_samples; push_speech appends what fits in the remaining
\* quota and drops the rest; is_at_capacity() is true exactly when the
\* accumulated length has reached the cap.
C18_SpeechWithinCap ==
    /\ [](speech <= max_speech_samples)
    /\ [](is_at_capacity(speech) <=> (speech >= max_speech_samples))
    /\ [][(calls' = calls + 1 /\ last_call'.op = "push_speech") =>
            /\ speech <= max_speech_samples
            /\ speech' = speech + Min(last_call'.n, max_speech_samples - speech)
         ]_vars

\* ------------------------------------------------- shared region claims
\* write_samples returned
WriteReturned == calls' = calls + 1 /\ last_call'.op = "write_samples"

\* C19: write_pos <= capacity in every reachable state; write_samples
\* copies at most capacity - write_pos samples, returns the number written
\* (0 when the region is full or finalized) and advances write_pos by
\* exactly that number.
C19_WritePosWithinCapacity ==
    /\ [](write_pos <= capacity)
    /\ [](callback.pc \in {"copy", "publish"} =>
            /\ callback.current_pos = write_pos
            /\ callback.samples_to_write
                  = Min(callback.len, capacity - write_pos))
    /\ [](\A len \in ShmChunk, pos \in 0..capacity :
            /\ samples_to_write(TRUE, pos, capacity, len) = 0
            /\ samples_to_write(FALSE, capacity, capacity, len) = 0)
    /\ [][WriteReturned =>
            /\ last_call'.written <= capacity - write_pos
            /\ last_call'.written <= last_call'.len
            /\ write_pos' = write_pos + last_call'.written
            /\ (write_pos = capacity \/ is_finalized) => last_call'.written = 0
         ]_vars

\* a write was cut to the room left, and the next one returned 0
C19_Witness ==
    /\ write_pos = capacity /\ capacity = 5
    /\ last_call.op = "write_samples" /\ last_call.written = 0
    /\ stream = "Some" /\ calls >= 4

\* C20: over the whole lifetime of the region, recorder restarts
\* included, is_finalized never goes back from true to false and the
\* value of write_pos read by get_available_samples / get_data_len never
\* decreases.
C20_FinalizedMonotonic ==
    [][/\ is_finalized => is_finalized'
       /\ write_pos' >= write_pos
      ]_vars

\* C21: write_pos is advanced only over cells whose copy has completed,
\* so the cells [0, write_pos) always hold the samples the writer copied
\* there, and a reader that loaded write_pos = N and then read [0, N)
\* gets exactly those samples, whatever the callback did in between.
C21_WriteThenPublish ==
    /\ [](/\ write_pos <= Len(copied_log)
          /\ SubSeq(mem, 1, write_pos) = SubSeq(copied_log, 1, write_pos))
    /\ [](last_call.op = "read_as_numpy" =>
            /\ last_call.data_len <= Len(copied_log)
            /\ last_call.data = SubSeq(copied_log, 1, last_call.data_len))
    /\ [][write_pos' > write_pos =>
            /\ callback.pc = "publish"
            /\ SubSeq(mem, 1, write_pos') = SubSeq(copied_log, 1, write_pos')
         ]_vars

\* a read of published samples completed while the callback was between
\* its copy and its fetch_add
C21_Witness ==
    /\ last_call.op = "read_as_numpy" /\ last_call.data_len > 0
    /\ callback.pc = "publish"
    /\ Len(copied_log) > last_call.data_len
    /\ last_call.data = SubSeq(copied_log, 1, last_call.data_len)

\* C22: once stop() has set is_finalized, nothing changes write_pos or
\* the contents of the region, and the cells [0, write_pos) hold the
\* samples the producer wrote.
C22_FrozenAfterFinalize ==
    /\ [](is_finalized =>
            SubSeq(mem, 1, write_pos) = SubSeq(copied_log, 1, write_pos))
    /\ [][is_finalized => (write_pos' = write_pos /\ mem' = mem)]_vars

Increasing(s) == \A i \in 1..(Len(s) - 1) : s[i] < s[i + 1]
Max(a, b) == IF a > b THEN a ELSE b

\* C23: whatever the interleaving of push_slice with the consumer's
\* try_pop loops (read_chunk, stop), the samples the consumer obtained,
\* in pop order and followed by those still in the ring, are pushed
\* samples in their original order without repetition, each accepted
\* sample is either obtained or still in the ring, a push drops samples
\* only when it found the ring too full for them, and at most
\* max(0, N - capacity) of the N pushed samples are dropped.
C23_RingSpsc ==
    /\ [](/\ Increasing(popped \o rb)
          /\ \A i \in 1..Len(popped) : popped[i] \in 1..pushed
          /\ \A i \in 1..Len(rb) : rb[i] \in 1..pushed
          /\ Len(popped) + Len(rb) = accepted
          /\ Len(rb) <= rb_capacity)
    /\ [](pushed - accepted <= Max(0, pushed - rb_capacity))
    /\ [](last_call.op = "push_slice" /\ last_call.n < last_call.len =>
            last_call.occupied + last_call.n = rb_capacity)
    /\ [](last_call.op \in {"read_chunk", "stop"} /\ "data" \in DOMAIN last_call =>
            /\ Len(last_call.data) <= Len(popped)
            /\ last_call.data =
                 SubSeq(popped, Len(popped) - Len(last_call.data) + 1,
                        Len(popped)))

\* samples were dropped on a full ring, read_chunk obtained some while
\* recording and stop obtained the rest
C23_Witness ==
    /\ last_call.op = "stop" /\ "data" \in DOMAIN last_call
    /\ last_call.data # <<>>
    /\ Len(popped) > Len(last_call.data)
    /\ pushed > accepted
    /\ rb = <<>>

C24_WitnessNoMatch ==
    /\ last_call.op = "start" /\ last_call.selected
    /\ last_call.supported_configs # <<>>
    /\ last_call.best = 0 /\ last_call.ret = "Err"
    /\ ~is_recording

IsCall == last_call.op = "send_json_request"

\* the items written on a socket are whole frames one after the other
WellFramed(wire) ==
    \A i \in 1..Len(wire) :
       IF i % 2 = 1 THEN wire[i][1] = "len"
       ELSE wire[i][1] = "json" /\ wire[i][2] = wire[i - 1][2]

\* C25: send_json_request calls exclude one another from the lock to the
\* return; what is written on any socket is a sequence of whole request
\* frames; a call that got a response got the response to its own
\* request, having written one frame and read one frame; and a call whose
\* read of the response failed left no cached connection behind.
C25_Serialized ==
    /\ \A t \in IpcThreads : (ipc[t].pc # "idle") <=> (lock_owner = t)
    /\ \A c \in 1..Len(socks) : WellFramed(socks[c].wire)
    /\ IsCall =>
         /\ last_call.resp # NoResponse =>
               /\ last_call.resp.req = last_call.req
               /\ last_call.header_writes = 1
               /\ last_call.payload_writes = 1
         /\ (last_call.payload_writes = 1 /\ ~last_call.body_read) =>
               last_call.guard_after = 0

\* the first call lost its connection on a failed read, the second call,
\* on the other thread, connected again and got the response to itself
C25_Witness ==
    /\ IsCall /\ last_call.code = "OK"
    /\ last_call.req = 2 /\ last_call.thread = 2
    /\ last_call.resp.req = 2
    /\ Len(socks) = 2 /\ socks[1] = Dropped /\ socks[1] # socks[2]
    /\ guard = 2

\* C26: a request of more than 10 MiB returns REQUEST_TOO_LARGE with no
\* connection attempted and nothing written, and a request of at most
\* 10 MiB does not; a response whose length header is above 1 MiB returns
\* PAYLOAD_TOO_LARGE with the body unread and the cached connection
\* dropped, and a response of at most 1 MiB does not.
C26_SizeLimits ==
    IsCall =>
      /\ (last_call.payload_size > 10 * 1024 * 1024)
            <=> (last_call.code = "REQUEST_TOO_LARGE")
      /\ last_call.code = "REQUEST_TOO_LARGE" =>
            /\ last_call.connects = 0
            /\ last_call.header_writes = 0 /\ last_call.header_failures = 0
            /\ last_call.payload_writes = 0
            /\ \A c \in 1..Len(socks) : \A i \in 1..Len(socks[c].wire) :
                  socks[c].wire[i][2] # last_call.req
      /\ last_call.resp # NoResponse =>
            ((last_call.resp.len > 1024 * 1024)
                <=> (last_call.code = "PAYLOAD_TOO_LARGE"))
      /\ last_call.code = "PAYLOAD_TOO_LARGE" =>
            ~last_call.body_read /\ last_call.guard_after = 0

\* a response one byte over the limit was refused
C26_Witness ==
    /\ IsCall /\ last_call.code = "PAYLOAD_TOO_LARGE"
    /\ last_call.resp.len = 1024 * 1024 + 1
    /\ guard = 0

\* a request one byte over the limit was refused while a connection was
\* cached, and the connection was left alone
C26_WitnessRequest ==
    /\ IsCall /\ last_call.code = "REQUEST_TOO_LARGE"
    /\ last_call.payload_size = 10 * 1024 * 1024 + 1
    /\ guard # 0

\* a response of exactly 1 MiB was accepted
C26_WitnessAtLimit ==
    /\ IsCall /\ last_call.code = "OK"
    /\ last_call.resp.len = 1024 * 1024

\* C27: within one call the header write fails at most twice, the second
\* failure ends the call with an error, at most two connections are
\* opened, and the payload is written at most once.
C27_SingleRetry ==
    /\ \A t \in IpcThreads :
          /\ ipc[t].connects <= 2
          /\ ipc[t].header_failures <= 2
          /\ ipc[t].header_writes <= 1
          /\ ipc[t].payload_writes <= 1
          /\ ipc[t].payload_writes <= ipc[t].header_writes
    /\ IsCall =>
          /\ last_call.connects <= 2
          /\ last_call.header_failures <= 2
          /\ last_call.payload_writes <= 1
          /\ last_call.header_failures = 2 =>
                /\ last_call.code = "IPC_ERROR"
                /\ last_call.header_writes = 0
                /\ last_call.payload_writes = 0
          /\ last_call.header_failures >= 1 =>
                last_call.connects >= 1

\* the cached connection of the first call had been closed by the daemon;
\* the second call failed its header once, reconnected, and succeeded
C27_Witness ==
    /\ IsCall /\ last_call.code = "OK" /\ last_call.req = 2
    /\ last_call.header_failures = 1
    /\ last_call.connects = 1
    /\ last_call.payload_writes = 1

\* a call that opened two connections and failed the header on both
C27_WitnessTwice ==
    /\ IsCall /\ last_call.code = "IPC_ERROR"
    /\ last_call.connects = 2 /\ last_call.header_failures = 2

\* C28: while the runtime directory exists and belongs to another user,
\* socket_path() returns no path and no connection is made.
C28_ForeignDirRefused ==
    (~env.V2M_SOCKET_PATH /\ dir_owner = "other") =>
        (PATH = "unset" /\ socks = <<>>)

\* C29: the handle, once initialised, stays alive whatever happens to the
\* ClipboardManager values, CLIPBOARD is set at most once, the text of the
\* latest successful set_text stays in the selection until this process
\* or another application replaces it, and a successful get_text through
\* any manager returns it.
C29_ClipboardPersistence ==
    /\ [](CLIPBOARD = "Ok" => handle_alive)
    /\ [](managers # {} => CLIPBOARD = "Ok")
    /\ [](written.valid =>
            selection = [owner |-> "self", text |-> written.text])
    /\ []((last_call.op = "get_text" /\ last_call.ret = "Ok"
           /\ written.valid) =>
            last_call.value = written.text)
    /\ [][CLIPBOARD # "unset" => CLIPBOARD' = CLIPBOARD]_vars

\* the text was set through a manager that has since been dropped, and a
\* manager created after it read the text back
C29_Witness ==
    /\ last_call.op = "get_text" /\ last_call.ret = "Ok"
    /\ written.valid
    /\ written.by \notin managers
    /\ last_call.manager > written.by
    /\ last_call.value = written.text

SpeechStartedStep ==
    vad_state.tag = "SpeechPending" /\ vad_state'.tag = "SpeechActive"

\* C30: at every SpeechStarted of a capture session the pre-roll is put
\* into the accumulated speech: the speech grows by at least the content
\* of the pre-roll buffer (up to the cap of the speech buffer).
C30_PreRollOnEverySpeechStarted ==
    [][SpeechStartedStep =>
          speech' >= Min(speech + pre_speech', max_speech_samples)]_vars

\* the last k elements of a sequence
LastN(seq, k) == SubSeq(seq, Len(seq) - k + 1, Len(seq))

\* what the claim gives as the size of the pre-roll ring
PreRollCapacity ==
    LET c == (buffer_log.pre_speech_duration_ms * buffer.sample_rate) \div 1000
    IN  IF c > 1 THEN c ELSE 1

\* C31: the pre-roll ring holds exactly the most recent min(capacity, n)
\* of the n samples given to push_pre_speech, oldest first, with capacity
\* pre_roll_ms * sample_rate / 1000 and at least 1; right after
\* start_speech the accumulated speech is the ring's contents in arrival
\* order, whatever had been accumulated before, and the ring is as it was.
C31_PreRollKeepsMostRecent ==
    LET n == Len(buffer_log.pre)
    IN  /\ buffer.pre_speech = LastN(buffer_log.pre, Min(PreRollCapacity, n))
        /\ last_call.op = "start_speech" =>
             /\ buffer.speech = LastN(buffer_log.pre, Min(PreRollCapacity, n))
             /\ buffer.pre_speech = last_call.before.pre_speech

\* start_speech on a wrapped ring, with speech accumulated before it
C31_Witness ==
    /\ last_call.op = "start_speech"
    /\ Len(buffer_log.pre) > PreRollCapacity
    /\ PreRollCapacity > 1
    /\ last_call.before.speech # <<>>
    /\ last_call.before.speech # buffer.speech

\* C32: end_speech returns exactly what was accumulated since the last
\* start_speech, the copy of the pre-roll followed by the samples
\* push_speech accepted, in order, and empties the accumulation: after it
\* has_speech() is false and speech_len() is 0, an end_speech right after
\* it returns nothing, and the pre-roll ring is as it was.
C32_EndSpeechTakesAccumulation ==
    last_call.op = "end_speech" =>
        /\ last_call.started =>
             last_call.audio = last_call.start \o last_call.pushed
        /\ ~sb_has_speech(buffer)
        /\ sb_speech_len(buffer) = 0
        /\ last_call.again => last_call.audio = <<>>
        /\ buffer.pre_speech = last_call.before.pre_speech

\* end_speech after a start_speech that copied a pre-roll and a
\* push_speech that was accepted
C32_Witness ==
    /\ last_call.op = "end_speech"
    /\ last_call.started
    /\ last_call.start # <<>>
    /\ last_call.pushed # <<>>
    /\ buffer.pre_speech # <<>>

\* C33: force_end() while capturing (SpeechActive or SilencePending)
\* moves the machine to Idle and returns MaxDurationReached; in Idle or
\* SpeechPending it returns None and leaves state and clock as they were;
\* reset() from any state gives Idle with the clock at zero; process()
\* never returns MaxDurationReached.
C33_ForceEndAndReset ==
    [][/\ (calls' = calls + 1 /\ last_call'.op = "force_end") =>
            IF vad_state.tag \in {"SpeechActive", "SilencePending"}
            THEN /\ vad_state' = VadIdle
                 /\ last_call'.event = "MaxDurationReached"
            ELSE /\ last_call'.event = "None"
                 /\ vad_state' = vad_state
                 /\ current_time_ms' = current_time_ms
       /\ (calls' = calls + 1 /\ last_call'.op = "reset") =>
            /\ vad_state' = VadIdle
            /\ current_time_ms' = 0
       /\ (calls' = calls + 1 /\ last_call'.op = "process") =>
            last_call'.event # "MaxDurationReached"]_vars

\* force_end ended a capture that was waiting out a silence, the clock
\* running
C33_Witness ==
    /\ last_call.op = "force_end"
    /\ last_call.event = "MaxDurationReached"
    /\ vad_state = VadIdle
    /\ current_time_ms > 0
    /\ vad_interrupted

\* run_recording_pipeline is over, by return or by unwinding
PipelineOver == task_pc \in {"release", "panicked"}

\* the audio the worker returned had reached the cap of the speech buffer
CaptureOverflowed ==
    capture_result = "Success" /\ audio_len >= max_speech_samples

\* C34: when the accumulated speech reaches the cap of the buffer during
\* capture, the session goes on as after any end of capture: the worker
\* returns the audio, the session passes through Processing and
\* transcription, the pipeline does not end in an error (the one thing
\* for which the task emits Error), and when it is over the state is Idle.
C34_OverflowEndsInIdle ==
    (PipelineOver /\ CaptureOverflowed) =>
        /\ state = "Idle"
        /\ Emitted(SessionEvents, StateChanged("Processing"))
        /\ ~IsErr(result)

\* what does hold of the overflow itself: the worker needs no cancel to
\* stop, returns Success with the audio, and the task takes it into
\* Processing and to the transcriber without an error of its own
C34_OverflowIsEndOfCapture ==
    /\ (w_pc = "finalize" /\ is_at_capacity(speech)) => has_speech(speech)
    /\ (w_pc = "returned" /\ audio_len >= max_speech_samples) =>
         capture_result = "Success"
    /\ (CaptureOverflowed /\ task_pc = "transcribe") =>
         /\ state = "Processing"
         /\ result = "none"
    /\ (CaptureOverflowed /\ task_pc = "release" /\ state = "Idle") =>
         result = "Ok"

\* the worker left its loop at the cap while nobody had cancelled
C34_OverflowReached ==
    /\ w_pc = "finalize" /\ is_at_capacity(speech) /\ ~cancel_flag
    /\ ~recording_timed_out

\* stop() has returned and the audio thread is gone: nothing but a new
\* call of the owner can happen to the recorder
RecorderStopped ==
    /\ last_call.op = "stop" /\ last_call.ret = "Ok"
    /\ stream = "None" /\ callback.pc = "idle"

\* C35: a wait_for_data future that was pending when stop() was called
\* completes, with the 'Stream closed' error or with Ok, and is not left
\* suspended: once stop() has returned, such a future is never parked on
\* the Notify with nothing left that would wake it.  For both recorders
\* and every interleaving of the callback's notify_one, the future's
\* check and stop().
C35_WaiterCompletesAfterStop ==
    (RecorderStopped /\ last_call.pending) => waiter.pc # "suspended"

\* C36: every recording session leaves Recording without the user doing
\* anything: when the session task has finished and no new session has
\* been claimed, RecordingState is no longer Recording.
C36_SessionLeavesRecording ==
    (task_pc = "done" /\ ~is_running /\ h_pc = "idle") => state # "Recording"

\* what does hold: the capture loop itself ends, by cancel, capacity,
\* disconnect, error, or the clock, even if no chunk ever arrives
C36_CaptureLoopEnds ==
    (w_pc \in {"loop", "recv"}) ~> (w_pc \notin {"loop", "recv"})

\* the sample-level buffer and the lengths of the same loop agree
CapSeqLengthsAgree ==
    /\ Len(buffer.speech) * CaptureBlock = speech
    /\ Len(buffer.pre_speech) * CaptureBlock = pre_speech

\* C37: the audio the capture worker returns holds every conditioned
\* sample at most once and in the order of arrival (the pre-roll taken at
\* the first SpeechStarted, then the chunks received while capturing); the
\* chunk on which SpeechStarted fires, which is already in the pre-roll
\* that start_speech copies, is not appended a second time.
C37_AudioHasEachSampleOnce ==
    (last_call.op = "returned") =>
        \A i, j \in 1..Len(last_call.audio) :
            i < j => last_call.audio[i] < last_call.audio[j]

\* C38: a cancel issued for one session never cancels a later one.
\* cancel_flag is cleared by start_recording after is_running was claimed
\* and before the task is spawned, so it is false when the task, and with
\* it the capture worker, is spawned; it is set only by the cancel arm of
\* a toggle that found is_running and Recording; and whenever it is set
\* while a session is active, a toggle other than the one that started
\* the session has been handled since the spawn.
C38_CancelNotCarriedOver ==
    /\ [][/\ (h_pc = "reset_cancel" /\ h_pc' # "reset_cancel") =>
               (is_running /\ ~cancel_flag' /\ task_pc' = task_pc)
          /\ (h_pc = "spawn" /\ h_pc' = "idle") =>
               (is_running /\ ~cancel_flag /\ ~cancel_flag')
          /\ (~cancel_flag /\ cancel_flag') =>
               (h_pc = "match" /\ was_running /\ current_state = "Recording")
         ]_vars
    /\ []((SessionActive /\ cancel_flag) => toggle_ret # "Ok_true")

\* a new session has been claimed while cancel_flag still stands from the
\* cancel of an earlier one, and start_recording is about to clear it
C38_Witness ==
    /\ h_pc = "reset_cancel"
    /\ cancel_flag /\ is_running
    /\ Count(events, StateChanged("Recording")) >= 1
    /\ task_pc = "done"

\* a wire that ends on a frame boundary: whole frames and nothing after
FrameAligned(wire) == WellFramed(wire) /\ Len(wire) % 2 = 0

\* C39: once a send_json_request has returned and no other call holds the
\* lock, the cached connection is absent or what was written on it ends
\* on a frame boundary: no length header without its payload stays on a
\* stream that is still cached.
C39_CachedConnectionFrameAligned ==
    (IsCall /\ lock_owner = 0) =>
        (guard = 0 \/ FrameAligned(socks[guard].wire))

\* ------------------------------------------------ detect_segments claims
SegReturned == seg.pc = "done" /\ seg.ret = "Ok"

\* frames a..b were all heard as is_voice
AllFrames(a, b, is_voice) ==
    /\ 1 <= a /\ b <= Len(seg.voice)
    /\ \A m \in a..b : seg.voice[m] = is_voice

\* some run of min_silence_frames silent frames lies within frames a..b
SilenceRunWithin(a, b) ==
    \E c \in a..b :
        /\ c + seg.min_silence_frames - 1 <= b
        /\ AllFrames(c, c + seg.min_silence_frames - 1, FALSE)

\* frame k (the first frame is 1) is a voice frame of a region of speech:
\* a run of min_speech_frames voice frames began at or before it and no
\* closing run of silence separates it from that run
InRegion(k) ==
    /\ seg.voice[k]
    /\ \E i \in 1..k :
          /\ AllFrames(i, i + seg.min_speech_frames - 1, TRUE)
          /\ ~SilenceRunWithin(i, k)

\* the samples of frame k lie within one of the segments returned
FrameCovered(k) ==
    \E i \in 1..Len(seg.segments) :
        /\ seg.segments[i][1] <= (k - 1) * seg.frame_samples
        /\ k * seg.frame_samples <= seg.segments[i][2]

\* increasing, pairwise disjoint, non-empty, within the audio
SegmentsWellFormed ==
    SegReturned =>
        /\ \A i \in 1..Len(seg.segments) :
              /\ 0 <= seg.segments[i][1]
              /\ seg.segments[i][1] < seg.segments[i][2]
              /\ seg.segments[i][2] <= seg.audio_len
        /\ \A i \in 1..(Len(seg.segments) - 1) :
              seg.segments[i][2] <= seg.segments[i + 1][1]

\* a region not closed by silence before the audio ends runs to its end
SegmentsOpenRegionEndsAtLen ==
    SegReturned =>
        \A k \in 1..Len(seg.voice) :
            (InRegion(k) /\ ~SilenceRunWithin(k + 1, Len(seg.voice))) =>
                /\ seg.segments # <<>>
                /\ seg.segments[Len(seg.segments)][2] = seg.audio_len

\* every voice frame of a region lies within a segment
SegmentsCoverRegions ==
    SegReturned => \A k \in 1..Len(seg.voice) : InRegion(k) => FrameCovered(k)

\* C40: the segments detect_segments returns are in increasing order,
\* pairwise disjoint, non-empty and within the audio; every voice frame of
\* a region, from the first confirming frame through the last voice frame
\* before the closing run of silence, lies within a segment; and a region
\* still open when the audio ends runs to the audio length.
C40_SegmentsAreTheSpeechRegions ==
    /\ SegmentsWellFormed
    /\ SegmentsCoverRegions
    /\ SegmentsOpenRegionEndsAtLen
====
